---------------------------- MODULE VectorProofs ----------------------------
(***************************************************************************)
(* Vectors and copied strings are sequences of their own, whatever the     *)
(* sizes of chunks, headers and vectors and however many there are: blocks *)
(* of the arena do not overlap, what is behind the last element is zero,   *)
(* and every operation on memory is the operation on the sequences.        *)
(***************************************************************************)
EXTENDS Vector, SequenceTheorems, WellFoundedInduction, TLAPS

-----------------------------------------------------------------------------
(* Arithmetic and minima.                                                  *)

\* Up gives the next multiple of the alignment.
LEMMA UpFacts ==
    ASSUME NEW x \in Nat
    PROVE  /\ Up(x) \in Nat
           /\ x <= Up(x) /\ Up(x) <= x + Align - 1
           /\ Up(x) % Align = 0
<1>1. Align \in Nat \ {0}
  BY ArenaAssumption
<1>2. (x + Align - 1) \div Align \in Nat
  BY <1>1
<1>3. \A q \in Nat : (q * Align) % Align = 0 /\ q * Align \in Nat
  BY <1>1
<1>4. /\ x <= ((x + Align - 1) \div Align) * Align
      /\ ((x + Align - 1) \div Align) * Align <= x + Align - 1
  BY <1>1
<1>5. QED
  BY <1>2, <1>3, <1>4 DEF Up

LEMMA MaxOfTwo ==
    ASSUME NEW x \in Int, NEW y \in Int
    PROVE  Max({x, y}) = IF x >= y THEN x ELSE y
<1> DEFINE m == IF x >= y THEN x ELSE y
<1>1. m \in {x, y} /\ \A z \in {x, y} : m >= z
  OBVIOUS
<1>2. QED
  BY <1>1 DEF Max

\* A set of natural numbers has a least one.
LEMMA MinFacts ==
    ASSUME NEW S \in SUBSET Nat, S # {}
    PROVE  Min(S) \in S
<1> DEFINE Less == {p \in Nat \X Nat : p[1] < p[2]}
<1>1. OpToRel(<, Nat) = Less
  BY DEF OpToRel
<1>2. IsWellFoundedOn(Less, Nat)
  BY <1>1, NatLessThanWellFounded
<1>3. \A x, y \in Nat : <<y, x>> \notin Less => x <= y
  OBVIOUS
<1> HIDE DEF Less
<1>4. PICK x \in S : \A y \in S : <<y, x>> \notin Less
  BY <1>2, WFMin
<1>5. \A y \in S : x <= y
  BY <1>3, <1>4
<1>6. QED
  BY <1>5 DEF Min

-----------------------------------------------------------------------------
(* The arena.                                                              *)

\* Where an allocation lands in a chunk that has room for it.
LEMMA TakeFacts ==
    ASSUME NEW c, IsChunk(c), NEW size \in Nat \ {0}, Fits(c, size)
    PROVE  /\ IsChunk(Take(c, size))
           /\ Take(c, size).capacity = c.capacity
           /\ Take(c, size).occupied = Offset(c) + size
           /\ Offset(c) \in Nat /\ c.occupied <= Offset(c)
           /\ (Base + Offset(c)) % Align = 0
           /\ \A k \in 0 .. c.capacity - 1 :
                 Take(c, size).data[k] = IF k \in Offset(c) .. Offset(c) + size - 1
                                         THEN 0 ELSE c.data[k]
<1> DEFINE at == Offset(c)
<1>1. Base \in Nat /\ c.occupied \in Nat /\ c.capacity \in Nat
  BY ArenaAssumption DEF IsChunk
<1>2. at \in Nat /\ c.occupied <= at /\ (Base + at) % Align = 0
  <2>1. /\ Up(Base + c.occupied) \in Nat
        /\ Base + c.occupied <= Up(Base + c.occupied)
        /\ Up(Base + c.occupied) % Align = 0
    BY <1>1, UpFacts
  <2>2. Base + at = Up(Base + c.occupied)
    BY <1>1, <2>1 DEF Offset
  <2>3. QED
    BY <1>1, <2>1, <2>2 DEF Offset
<1>3. at + size <= c.capacity
  BY DEF Fits
<1> HIDE DEF at
<1> DEFINE data == [k \in 0 .. c.capacity - 1 |-> IF k \in at .. at + size - 1 THEN 0 ELSE c.data[k]]
<1>4. Take(c, size) = [capacity |-> c.capacity, occupied |-> at + size, data |-> data]
  <2>1. c = [capacity |-> c.capacity, occupied |-> c.occupied, data |-> c.data]
        /\ DOMAIN c.data = 0 .. c.capacity - 1
    BY DEF IsChunk
  <2>2. Take(c, size) = [c EXCEPT !.occupied = at + size,
                                  !.data = [k \in DOMAIN @ |-> IF k \in at .. at + size - 1
                                                               THEN 0 ELSE @[k]]]
    BY DEF Take, at
  <2>3. QED
    BY <2>1, <2>2
<1>5. data \in [0 .. c.capacity - 1 -> Nat]
  BY DEF IsChunk
<1>6. QED
  BY <1>1, <1>2, <1>3, <1>4, <1>5 DEF IsChunk, at

\* A new chunk has room for what it is made for.
LEMMA ChunkFacts ==
    ASSUME NEW size \in Nat \ {0}
    PROVE  IsChunk(Chunk(size)) /\ Fits(Chunk(size), size)
<1> DEFINE capacity == Max({size + Align, ChunkSize})
<1>1. Align \in Nat \ {0} /\ ChunkSize \in Nat /\ Base \in Nat
  BY ArenaAssumption
<1>2. capacity \in Nat /\ size + Align <= capacity
  BY <1>1, MaxOfTwo
<1>3. Up(Base) \in Nat /\ Base <= Up(Base) /\ Up(Base) <= Base + Align - 1
  BY <1>1, UpFacts
<1> HIDE DEF capacity
<1>4. Chunk(size) = [capacity |-> capacity, occupied |-> 0,
                     data |-> [k \in 0 .. capacity - 1 |-> 0]]
  BY DEF Chunk, capacity
<1>5. IsChunk(Chunk(size))
  BY <1>2, <1>4 DEF IsChunk
<1>6. Offset(Chunk(size)) = Up(Base) - Base
  BY <1>1, <1>4 DEF Offset
<1>7. QED
  BY <1>1, <1>2, <1>3, <1>4, <1>5, <1>6 DEF Fits

\* The chunks of an arena, as a set that sequences can be over.
ChunkSet == {c \in [capacity : Nat, occupied : Nat, data : UNION {[0 .. n - 1 -> Nat] : n \in Nat}] :
                IsChunk(c)}

LEMMA ChunkInSet ==
    ASSUME NEW c
    PROVE  IsChunk(c) <=> c \in ChunkSet
<1>1. ASSUME IsChunk(c) PROVE c \in ChunkSet
  <2>1. c.data \in UNION {[0 .. n - 1 -> Nat] : n \in Nat}
    <3>1. c.capacity \in Nat /\ c.data \in [0 .. c.capacity - 1 -> Nat]
      BY <1>1 DEF IsChunk
    <3>2. QED
      BY <3>1
  <2>2. QED
    BY <1>1, <2>1 DEF IsChunk, ChunkSet
<1>2. QED
  BY <1>1 DEF ChunkSet

LEMMA ArenaType ==
    ASSUME NEW a
    PROVE  ArenaOK(a) <=> /\ a = [chunks |-> a.chunks, current |-> a.current]
                          /\ a.chunks \in Seq(ChunkSet)
                          /\ a.current \in 0 .. Len(a.chunks)
<1> DEFINE S == {a.chunks[k] : k \in DOMAIN a.chunks}
<1>1. ASSUME ArenaOK(a) PROVE a.chunks \in Seq(ChunkSet)
  <2>1. a.chunks \in Seq(S)
    BY <1>1 DEF ArenaOK
  <2>2. S \subseteq ChunkSet
    BY <1>1, ChunkInSet DEF ArenaOK
  <2>3. QED
    BY <2>1, <2>2, SeqMonotonic
<1>2. ASSUME a.chunks \in Seq(ChunkSet)
      PROVE  a.chunks \in Seq(S) /\ \A k \in DOMAIN a.chunks : IsChunk(a.chunks[k])
  <2>1. DOMAIN a.chunks = 1 .. Len(a.chunks) /\ Len(a.chunks) \in Nat
    BY <1>2
  <2>2. \A k \in 1 .. Len(a.chunks) : a.chunks[k] \in ChunkSet /\ a.chunks[k] \in S
    BY <1>2, <2>1
  <2>3. a.chunks \in [1 .. Len(a.chunks) -> S]
    BY <1>2, <2>1, <2>2
  <2>4. QED
    BY <2>1, <2>2, <2>3, ChunkInSet, SeqDef
<1>3. QED
  BY <1>1, <1>2 DEF ArenaOK

\* What an allocation gives: a zeroed block in the arena, apart from every block
\* that was in it before, which keeps its place and its cells.
Given(a, size, after, place, offset) ==
    LET new == [chunk |-> place, at |-> offset, size |-> size]
    IN  /\ ArenaOK(after)
        /\ place \in Nat /\ offset \in Nat
        /\ InArena(after, new)
        /\ \A k \in 0 .. size - 1 : Load(after, place, offset + k) = 0
        /\ \A chunk, at, old \in Nat :
              LET b == [chunk |-> chunk, at |-> at, size |-> old]
              IN  InArena(a, b) =>
                      /\ InArena(after, b) /\ Apart(b, new) /\ Apart(new, b)
                      /\ \A k \in 0 .. old - 1 :
                            Load(after, chunk, at + k) = Load(a, chunk, at + k)

\* Taking from one chunk.
LEMMA TakeGives ==
    ASSUME NEW a, NEW chunks \in Seq(ChunkSet), ArenaOK(a), NEW size \in Nat \ {0},
           NEW chosen \in 1 .. Len(chunks), Fits(chunks[chosen], size),
           Len(a.chunks) <= Len(chunks),
           \A k \in 1 .. Len(a.chunks) : chunks[k] = a.chunks[k]
    PROVE  Given(a, size,
                 [chunks |-> [chunks EXCEPT ![chosen] = Take(@, size)], current |-> chosen],
                 chosen, Offset(chunks[chosen]))
<1> DEFINE c == chunks[chosen]
           taken == [chunks EXCEPT ![chosen] = Take(c, size)]
           arena2 == [chunks |-> taken, current |-> chosen]
           at == Offset(c)
           new == [chunk |-> chosen, at |-> at, size |-> size]
<1>1. Len(chunks) \in Nat /\ DOMAIN chunks = 1 .. Len(chunks) /\ IsChunk(c)
  BY ChunkInSet
<1>2. /\ IsChunk(Take(c, size))
      /\ Take(c, size).capacity = c.capacity
      /\ Take(c, size).occupied = at + size
      /\ at \in Nat /\ c.occupied <= at
      /\ (Base + at) % Align = 0
      /\ \A k \in 0 .. c.capacity - 1 :
            Take(c, size).data[k] = IF k \in at .. at + size - 1 THEN 0 ELSE c.data[k]
  BY <1>1, TakeFacts
<1>3. c.capacity \in Nat /\ c.occupied \in Nat /\ at + size <= c.capacity
  BY <1>1, <1>2 DEF IsChunk
<1> DEFINE t == Take(c, size)
<1>4. t \in ChunkSet
  BY <1>2, ChunkInSet
<1>5. /\ taken \in Seq(ChunkSet) /\ Len(taken) = Len(chunks)
      /\ \A k \in 1 .. Len(chunks) : taken[k] = IF k = chosen THEN t ELSE chunks[k]
  BY <1>4, ExceptSeq
<1>z. \A k \in 0 .. size - 1 : t.data[at + k] = 0
  <2>1. \A k \in 0 .. size - 1 : at + k \in 0 .. c.capacity - 1 /\ at + k \in at .. at + size - 1
    BY <1>2, <1>3
  <2>2. QED
    BY <1>2, <2>1
<1> HIDE DEF t, c, at, taken
<1>6. ArenaOK(arena2)
  BY <1>1, <1>5, ArenaType
<1>7. DOMAIN taken = 1 .. Len(chunks) /\ taken[chosen] = t
  BY <1>1, <1>5
<1>8. InArena(arena2, new)
  BY <1>2, <1>7 DEF InArena, t
<1>9. \A k \in 0 .. size - 1 : Load(arena2, chosen, at + k) = 0
  BY <1>7, <1>z DEF Load
<1>10. ASSUME NEW chunk \in Nat, NEW from \in Nat, NEW old \in Nat,
              InArena(a, [chunk |-> chunk, at |-> from, size |-> old])
       PROVE  LET b == [chunk |-> chunk, at |-> from, size |-> old]
              IN  /\ InArena(arena2, b) /\ Apart(b, new) /\ Apart(new, b)
                  /\ \A k \in 0 .. old - 1 :
                        Load(arena2, chunk, from + k) = Load(a, chunk, from + k)
  <2>1. /\ chunk \in 1 .. Len(a.chunks) /\ chunk \in 1 .. Len(chunks)
        /\ chunks[chunk] = a.chunks[chunk]
        /\ from + old <= chunks[chunk].occupied /\ (Base + from) % Align = 0
    <3>1. DOMAIN a.chunks = 1 .. Len(a.chunks) /\ Len(a.chunks) \in Nat
      BY ArenaType
    <3>2. chunk \in 1 .. Len(a.chunks)
      BY <1>10, <3>1 DEF InArena
    <3>3. QED
      BY <1>1, <1>10, <3>1, <3>2 DEF InArena
  <2>2. CASE chunk # chosen
    <3>1. taken[chunk] = chunks[chunk]
      BY <1>5, <2>1, <2>2
    <3>2. QED
      BY <1>7, <2>1, <2>2, <3>1 DEF InArena, Apart, Load
  <2>3. CASE chunk = chosen
    <3>1. from + old <= c.occupied
      BY <2>1, <2>3 DEF c
    <3>2. from + old <= at /\ from + old <= t.occupied
      BY <1>2, <1>3, <3>1 DEF t
    <3>3. \A k \in 0 .. old - 1 : t.data[from + k] = c.data[from + k]
      BY <1>2, <1>3, <3>2 DEF t
    <3>4. QED
      BY <1>7, <2>1, <2>3, <3>2, <3>3 DEF InArena, Apart, Load, c
  <2>4. QED
    BY <2>2, <2>3
<1>11. Given(a, size, arena2, chosen, at)
  <2>1. at \in Nat /\ chosen \in Nat
    BY <1>2
  <2> HIDE DEF arena2
  <2>2. QED
    BY <1>6, <1>8, <1>9, <1>10, <2>1 DEF Given
<1>12. QED
  BY <1>11 DEF taken, at, c

LEMMA AllocateGives ==
    ASSUME NEW a, ArenaOK(a), NEW size \in Nat \ {0}
    PROVE  LET r == Allocate(a, size)
           IN  Given(a, size, r.arena, r.chunk, r.at)
<1> DEFINE from == Max({1, a.current})
           room == {k \in from .. Len(a.chunks) : Fits(a.chunks[k], size)}
           chunks == IF room = {} THEN Append(a.chunks, Chunk(size)) ELSE a.chunks
           chosen == IF room = {} THEN Len(chunks) ELSE Min(room)
<1>1. a.chunks \in Seq(ChunkSet) /\ a.current \in Nat /\ Len(a.chunks) \in Nat
  BY ArenaType
<1>2. from \in Nat \ {0}
  BY <1>1, MaxOfTwo
<1> HIDE DEF from
<1>3. room \subseteq Nat /\ \A k \in room : k \in 1 .. Len(a.chunks) /\ Fits(a.chunks[k], size)
  BY <1>1, <1>2
<1>4. Allocate(a, size) = [ arena |-> [chunks |-> [chunks EXCEPT ![chosen] = Take(@, size)],
                                       current |-> chosen],
                            chunk |-> chosen, at |-> Offset(chunks[chosen]) ]
  BY DEF Allocate, from
<1> HIDE DEF room
<1>5. /\ chunks \in Seq(ChunkSet) /\ chosen \in 1 .. Len(chunks)
      /\ Fits(chunks[chosen], size) /\ Len(a.chunks) <= Len(chunks)
      /\ \A k \in 1 .. Len(a.chunks) : chunks[k] = a.chunks[k]
  <2>1. CASE room = {}
    <3>1. Chunk(size) \in ChunkSet /\ Fits(Chunk(size), size)
      BY ChunkFacts, ChunkInSet
    <3>2. QED
      BY <1>1, <2>1, <3>1, AppendProperties
  <2>2. CASE room # {}
    <3>1. Min(room) \in room
      BY <1>3, <2>2, MinFacts
    <3>2. chunks = a.chunks /\ chosen = Min(room)
      BY <2>2
    <3>3. chosen \in 1 .. Len(a.chunks) /\ Fits(a.chunks[chosen], size)
      BY <1>3, <3>1, <3>2
    <3>4. QED
      BY <1>1, <3>2, <3>3
  <2>3. QED
    BY <2>1, <2>2
<1> HIDE DEF chunks, chosen
<1> DEFINE after == [chunks |-> [chunks EXCEPT ![chosen] = Take(@, size)], current |-> chosen]
<1>6. Given(a, size, after, chosen, Offset(chunks[chosen]))
  BY <1>5, TakeGives
<1>7. /\ Allocate(a, size).arena = after /\ Allocate(a, size).chunk = chosen
      /\ Allocate(a, size).at = Offset(chunks[chosen])
  BY <1>4
<1>8. QED
  BY <1>6, <1>7

\* Writing into a chunk of an arena.
Wrote(a, c, data) == [a EXCEPT !.chunks[c].data = data]

LEMMA WriteFacts ==
    ASSUME NEW a, ArenaOK(a), NEW c \in DOMAIN a.chunks,
           NEW data \in [0 .. a.chunks[c].capacity - 1 -> Nat]
    PROVE  LET after == Wrote(a, c, data)
           IN  /\ ArenaOK(after)
               /\ DOMAIN after.chunks = DOMAIN a.chunks
               /\ \A b : InArena(a, b) => InArena(after, b)
               /\ \A d \in DOMAIN a.chunks : d # c => after.chunks[d] = a.chunks[d]
               /\ after.chunks[c].data = data
<1> DEFINE chunk == [a.chunks[c] EXCEPT !.data = data]
           chunks == [a.chunks EXCEPT ![c] = chunk]
           after == Wrote(a, c, data)
<1>1. /\ a = [chunks |-> a.chunks, current |-> a.current]
      /\ a.chunks \in Seq(ChunkSet) /\ a.current \in 0 .. Len(a.chunks)
      /\ DOMAIN a.chunks = 1 .. Len(a.chunks)
  BY ArenaType
<1>2. after = [chunks |-> chunks, current |-> a.current]
  <2>1. \A x : [a EXCEPT !.chunks = x] = [chunks |-> x, current |-> a.current]
    BY <1>1
  <2>2. QED
    BY <2>1 DEF Wrote
<1>3. IsChunk(a.chunks[c])
  BY DEF ArenaOK
<1>4. /\ chunk = [capacity |-> a.chunks[c].capacity, occupied |-> a.chunks[c].occupied,
                  data |-> data]
  BY <1>3 DEF IsChunk
<1>5. chunk \in ChunkSet
  BY <1>3, <1>4, ChunkInSet DEF IsChunk
<1> HIDE DEF chunk
<1>6. /\ chunks \in Seq(ChunkSet) /\ Len(chunks) = Len(a.chunks)
      /\ \A d \in 1 .. Len(a.chunks) : chunks[d] = IF d = c THEN chunk ELSE a.chunks[d]
  BY <1>1, <1>5, ExceptSeq
<1> HIDE DEF chunks
<1>7. DOMAIN chunks = 1 .. Len(a.chunks)
  BY <1>6
<1>8. after.chunks = chunks /\ after.current = a.current
  BY <1>2
<1>9. ArenaOK(after)
  BY <1>1, <1>2, <1>6, <1>8, ArenaType
<1> HIDE DEF after
<1>10. \A b : InArena(a, b) => InArena(after, b)
  BY <1>1, <1>4, <1>6, <1>7, <1>8 DEF InArena
<1>11. QED
  BY <1>1, <1>4, <1>6, <1>7, <1>8, <1>9, <1>10 DEF after

-----------------------------------------------------------------------------
(* The memory of vectors and texts, apart from the state they are in: in   *)
(* between the steps of an operation it is all right, too.                 *)
HeaderBlock(w) == [chunk |-> w.header.chunk, at |-> w.header.at, size |-> HeaderSize]
DataBlock(w) == [chunk |-> w.chunk, at |-> w.at, size |-> w.capacity]

BlockType == [chunk : Nat, at : Nat, size : Nat \ {0}]

IsVector(w) == w \in VectorRecords /\ w.count < w.capacity

CellsOf(a, w) == [k \in 1 .. w.count |-> Load(a, w.chunk, w.at + k - 1)]

ZeroBehind(a, w) == \A k \in w.count .. w.capacity - 1 : Load(a, w.chunk, w.at + k) = 0

VectorIn(a, w) ==
    /\ IsVector(w)
    /\ InArena(a, HeaderBlock(w)) /\ InArena(a, DataBlock(w))
    /\ Apart(HeaderBlock(w), DataBlock(w))

\* Nothing of the vector lies over the block.
Clear(w, b) == Apart(HeaderBlock(w), b) /\ Apart(DataBlock(w), b)

Living(vs) == {v \in Vectors : vs[v] # None}

MemoryOK(a, vs, strs, shr) ==
    /\ ArenaOK(a)
    /\ vs \in [Vectors -> VectorRecords \cup {None}]
    /\ strs \in Seq(BlockType)
    /\ shr \subseteq Vectors
    /\ \A v \in Living(vs) : VectorIn(a, vs[v])
    /\ \A u, v \in Living(vs) :
          u # v => Clear(vs[u], HeaderBlock(vs[v])) /\ Clear(vs[u], DataBlock(vs[v]))
    /\ \A k \in DOMAIN strs : InArena(a, strs[k])
    /\ \A j, k \in DOMAIN strs : j # k => Apart(strs[j], strs[k])
    /\ \A v \in Living(vs), k \in DOMAIN strs : Clear(vs[v], strs[k])
    /\ \A v \in Living(vs) : v \notin shr => ZeroBehind(a, vs[v])

ListsOf(a, vs) == [v \in Vectors |-> IF vs[v] # None THEN CellsOf(a, vs[v]) ELSE None]

TextsOf(a, strs) ==
    [k \in DOMAIN strs |->
        [j \in 1 .. strs[k].size - 1 |-> Load(a, strs[k].chunk, strs[k].at + j - 1)]]

LEMMA ApartSymmetric ==
    ASSUME NEW b, NEW c, Apart(b, c)
    PROVE  Apart(c, b)
  BY DEF Apart

LEMMA BlocksTyped ==
    ASSUME NEW w, IsVector(w)
    PROVE  /\ HeaderBlock(w) \in BlockType /\ DataBlock(w) \in BlockType
           /\ w.count \in Nat /\ w.capacity \in Nat \ {0} /\ w.at \in Nat /\ w.chunk \in Nat
  BY VectorAssumption DEF IsVector, VectorRecords, Places, HeaderBlock, DataBlock, BlockType

\* The invariant is that the memory is all right.
LEMMA MemoryInvariant == IInv <=> MemoryOK(arena, vectors, strings, shrunk)
<1> DEFINE H(v) == <<"header", v>>
           D(v) == <<"data", v>>
           T(k) == <<"text", k>>
<1>1. \A o : o \in Owners <=> \/ \E v \in Living(vectors) : o = H(v) \/ o = D(v)
                              \/ \E k \in DOMAIN strings : o = T(k)
  BY DEF Owners, Living, Alive
<1>2. /\ \A v : Block(H(v)) = HeaderBlock(vectors[v])
      /\ \A v : Block(D(v)) = DataBlock(vectors[v])
      /\ \A k : Block(T(k)) = strings[k]
  BY DEF Block, HeaderBlock, DataBlock
<1>3. /\ \A u, v : H(u) # D(v) /\ H(u) # T(v) /\ D(u) # T(v)
      /\ \A u, v : u # v => H(u) # H(v) /\ D(u) # D(v) /\ T(u) # T(v)
  OBVIOUS
<1> HIDE DEF H, D, T
<1>4. BlocksFit <=> /\ \A v \in Living(vectors) : /\ InArena(arena, HeaderBlock(vectors[v]))
                                                  /\ InArena(arena, DataBlock(vectors[v]))
                    /\ \A k \in DOMAIN strings : InArena(arena, strings[k])
  BY <1>1, <1>2 DEF BlocksFit
<1>5. BlocksDisjoint <=>
          /\ \A v \in Living(vectors) : Apart(HeaderBlock(vectors[v]), DataBlock(vectors[v]))
          /\ \A u, v \in Living(vectors) :
                u # v => /\ Clear(vectors[u], HeaderBlock(vectors[v]))
                         /\ Clear(vectors[u], DataBlock(vectors[v]))
          /\ \A j, k \in DOMAIN strings : j # k => Apart(strings[j], strings[k])
          /\ \A v \in Living(vectors), k \in DOMAIN strings : Clear(vectors[v], strings[k])
  <2>1. ASSUME BlocksDisjoint, NEW u \in Living(vectors), NEW v \in Living(vectors)
        PROVE  /\ Apart(HeaderBlock(vectors[v]), DataBlock(vectors[v]))
               /\ u # v => /\ Clear(vectors[u], HeaderBlock(vectors[v]))
                           /\ Clear(vectors[u], DataBlock(vectors[v]))
    <3>1. H(u) \in Owners /\ D(u) \in Owners /\ H(v) \in Owners /\ D(v) \in Owners
      BY <1>1
    <3>2. QED
      BY <1>2, <1>3, <2>1, <3>1 DEF BlocksDisjoint, Clear
  <2>2. ASSUME BlocksDisjoint, NEW k \in DOMAIN strings
        PROVE  /\ \A j \in DOMAIN strings : j # k => Apart(strings[j], strings[k])
               /\ \A v \in Living(vectors) : Clear(vectors[v], strings[k])
    <3>1. T(k) \in Owners /\ \A j \in DOMAIN strings : T(j) \in Owners
      BY <1>1
    <3>2. \A v \in Living(vectors) : H(v) \in Owners /\ D(v) \in Owners
      BY <1>1
    <3>3. QED
      BY <1>2, <1>3, <2>2, <3>1, <3>2 DEF BlocksDisjoint, Clear
  <2>3. ASSUME \A v \in Living(vectors) : Apart(HeaderBlock(vectors[v]), DataBlock(vectors[v])),
               \A u, v \in Living(vectors) :
                   u # v => /\ Clear(vectors[u], HeaderBlock(vectors[v]))
                            /\ Clear(vectors[u], DataBlock(vectors[v])),
               \A j, k \in DOMAIN strings : j # k => Apart(strings[j], strings[k]),
               \A v \in Living(vectors), k \in DOMAIN strings : Clear(vectors[v], strings[k]),
               NEW o \in Owners, NEW p \in Owners, o # p
        PROVE  Apart(Block(o), Block(p))
    <3>1. CASE \E k \in DOMAIN strings : o = T(k)
      BY <1>1, <1>2, <2>3, <3>1, ApartSymmetric DEF Clear
    <3>2. CASE \E u \in Living(vectors) : o = H(u)
      BY <1>1, <1>2, <2>3, <3>2, ApartSymmetric DEF Clear
    <3>3. CASE \E u \in Living(vectors) : o = D(u)
      BY <1>1, <1>2, <2>3, <3>3, ApartSymmetric DEF Clear
    <3>4. QED
      BY <1>1, <3>1, <3>2, <3>3
  <2>4. QED
    BY <2>1, <2>2, <2>3 DEF BlocksDisjoint
<1>6. /\ TypeOK <=> /\ ArenaOK(arena) /\ vectors \in [Vectors -> VectorRecords \cup {None}]
                    /\ strings \in Seq(BlockType) /\ shrunk \subseteq Vectors
      /\ TypeOK => (RoomForOneMore <=> \A v \in Living(vectors) : IsVector(vectors[v]))
      /\ UnusedIsZero <=> \A v \in Living(vectors) : v \notin shrunk => ZeroBehind(arena, vectors[v])
  BY DEF TypeOK, BlockType, RoomForOneMore, IsVector, UnusedIsZero, ZeroBehind, Alive, Living
<1>7. QED
  BY <1>4, <1>5, <1>6 DEF IInv, MemoryOK, VectorIn

-----------------------------------------------------------------------------
(* What the memory operations do to it.                                    *)
Same(a, after, b) ==
    \A k \in 0 .. b.size - 1 : Load(after, b.chunk, b.at + k) = Load(a, b.chunk, b.at + k)

\* An operation on the arena that leaves the cells of all blocks alone, but for
\* those of some vectors, leaves all the others as they were.
LEMMA Kept ==
    ASSUME NEW a, NEW vs, NEW strs, NEW shr, MemoryOK(a, vs, strs, shr),
           NEW after, ArenaOK(after), \A b \in BlockType : InArena(a, b) => InArena(after, b),
           NEW touched \in SUBSET Vectors,
           \A v \in Living(vs) \ touched : Same(a, after, DataBlock(vs[v])),
           \A k \in DOMAIN strs : Same(a, after, strs[k])
    PROVE  /\ MemoryOK(after, vs, strs, shr \cup touched)
           /\ \A v \in Vectors \ touched : ListsOf(after, vs)[v] = ListsOf(a, vs)[v]
           /\ TextsOf(after, strs) = TextsOf(a, strs)
<1>1. \A v \in Living(vs) : IsVector(vs[v])
  BY DEF MemoryOK, VectorIn
<1>2. \A v \in Living(vs) : VectorIn(after, vs[v])
  BY <1>1, BlocksTyped DEF MemoryOK, VectorIn
<1>3. \A k \in DOMAIN strs : strs[k] \in BlockType
  BY DEF MemoryOK
<1>4. ASSUME NEW v \in Living(vs) \ touched
      PROVE  /\ CellsOf(after, vs[v]) = CellsOf(a, vs[v])
             /\ ZeroBehind(a, vs[v]) => ZeroBehind(after, vs[v])
  <2> DEFINE w == vs[v]
  <2>1. /\ w.count \in Nat /\ w.capacity \in Nat /\ w.count < w.capacity /\ w.at \in Nat
    BY <1>1, BlocksTyped DEF IsVector
  <2>2. \A k \in 0 .. w.capacity - 1 : Load(after, w.chunk, w.at + k) = Load(a, w.chunk, w.at + k)
    BY DEF Same, DataBlock
  <2> HIDE DEF w
  <2>3. \A k \in 1 .. w.count : Load(after, w.chunk, w.at + k - 1) = Load(a, w.chunk, w.at + k - 1)
    <3>1. \A k \in 1 .. w.count : k - 1 \in 0 .. w.capacity - 1 /\ w.at + (k - 1) = w.at + k - 1
      BY <2>1
    <3>2. QED
      BY <2>2, <3>1
  <2>4. CellsOf(after, w) = CellsOf(a, w)
    BY <2>3 DEF CellsOf
  <2>5. ZeroBehind(a, w) => ZeroBehind(after, w)
    BY <2>1, <2>2 DEF ZeroBehind
  <2>6. QED
    BY <2>4, <2>5 DEF w
<1>5. ASSUME NEW k \in DOMAIN strs, NEW j \in 1 .. strs[k].size - 1
      PROVE  Load(after, strs[k].chunk, strs[k].at + j - 1) = Load(a, strs[k].chunk, strs[k].at + j - 1)
  <2>1. strs[k].size \in Nat /\ strs[k].at \in Nat
    BY <1>3 DEF BlockType
  <2>2. j - 1 \in 0 .. strs[k].size - 1 /\ strs[k].at + (j - 1) = strs[k].at + j - 1
    BY <2>1
  <2>3. QED
    BY <2>2 DEF Same
<1>6. TextsOf(after, strs) = TextsOf(a, strs)
  BY <1>5 DEF TextsOf
<1>7. \A v \in Vectors \ touched : ListsOf(after, vs)[v] = ListsOf(a, vs)[v]
  BY <1>4 DEF ListsOf, Living
<1>8. MemoryOK(after, vs, strs, shr \cup touched)
  BY <1>2, <1>3, <1>4 DEF MemoryOK
<1>9. QED
  BY <1>6, <1>7, <1>8

\* An allocation leaves everything as it was and is apart from everything.
LEMMA GivenKeeps ==
    ASSUME NEW a, NEW vs, NEW strs, NEW shr, MemoryOK(a, vs, strs, shr),
           NEW size \in Nat \ {0}, NEW after, NEW place, NEW offset,
           Given(a, size, after, place, offset)
    PROVE  LET new == [chunk |-> place, at |-> offset, size |-> size]
           IN  /\ MemoryOK(after, vs, strs, shr)
               /\ ListsOf(after, vs) = ListsOf(a, vs)
               /\ TextsOf(after, strs) = TextsOf(a, strs)
               /\ new \in BlockType /\ InArena(after, new)
               /\ \A v \in Living(vs) : Clear(vs[v], new)
               /\ \A k \in DOMAIN strs : Apart(strs[k], new)
<1> DEFINE new == [chunk |-> place, at |-> offset, size |-> size]
<1>1. \A b \in BlockType :
          InArena(a, b) => InArena(after, b) /\ Apart(b, new) /\ Same(a, after, b)
  <2> SUFFICES ASSUME NEW b \in BlockType, InArena(a, b)
               PROVE  InArena(after, b) /\ Apart(b, new) /\ Same(a, after, b)
    OBVIOUS
  <2>1. /\ b = [chunk |-> b.chunk, at |-> b.at, size |-> b.size]
        /\ b.chunk \in Nat /\ b.at \in Nat /\ b.size \in Nat
    BY DEF BlockType
  <2>2. QED
    BY <2>1 DEF Given, Same
<1>2. \A v \in Living(vs) : /\ HeaderBlock(vs[v]) \in BlockType /\ InArena(a, HeaderBlock(vs[v]))
                            /\ DataBlock(vs[v]) \in BlockType /\ InArena(a, DataBlock(vs[v]))
  BY BlocksTyped DEF MemoryOK, VectorIn
<1>3. \A k \in DOMAIN strs : strs[k] \in BlockType /\ InArena(a, strs[k])
  BY DEF MemoryOK
<1>4. ArenaOK(after) /\ new \in BlockType /\ InArena(after, new)
  BY DEF Given, BlockType
<1> HIDE DEF new
<1>5. /\ \A v \in Living(vs) : Clear(vs[v], new) /\ Same(a, after, DataBlock(vs[v]))
      /\ \A k \in DOMAIN strs : Apart(strs[k], new) /\ Same(a, after, strs[k])
  BY <1>1, <1>2, <1>3 DEF Clear
<1> DEFINE touched == {}
<1>6. touched \in SUBSET Vectors /\ shr \cup touched = shr /\ Vectors \ touched = Vectors
      /\ Living(vs) \ touched = Living(vs)
  OBVIOUS
<1> HIDE DEF touched
<1>7. /\ MemoryOK(after, vs, strs, shr \cup touched)
      /\ \A v \in Vectors \ touched : ListsOf(after, vs)[v] = ListsOf(a, vs)[v]
      /\ TextsOf(after, strs) = TextsOf(a, strs)
  BY <1>1, <1>4, <1>5, <1>6, Kept
<1>8. ListsOf(after, vs) = ListsOf(a, vs)
  BY <1>6, <1>7 DEF ListsOf
<1>9. QED
  BY <1>4, <1>5, <1>6, <1>7, <1>8 DEF new

\* Cells of one block are written: what is apart from it stays as it was.
WritesOnly(a, b, data) ==
    /\ data \in [0 .. a.chunks[b.chunk].capacity - 1 -> Nat]
    /\ \A k \in 0 .. a.chunks[b.chunk].capacity - 1 :
          k \notin b.at .. b.at + b.size - 1 => data[k] = a.chunks[b.chunk].data[k]

LEMMA WriteKeeps ==
    ASSUME NEW a, ArenaOK(a), NEW b \in BlockType, InArena(a, b),
           NEW data, WritesOnly(a, b, data)
    PROVE  LET after == Wrote(a, b.chunk, data)
           IN  /\ ArenaOK(after)
               /\ \A c : InArena(a, c) => InArena(after, c)
               /\ \A c \in BlockType : InArena(a, c) /\ Apart(c, b) => Same(a, after, c)
               /\ \A k : Load(after, b.chunk, k) = data[k]
<1> DEFINE after == Wrote(a, b.chunk, data)
<1>1. /\ b.chunk \in DOMAIN a.chunks
      /\ data \in [0 .. a.chunks[b.chunk].capacity - 1 -> Nat]
      /\ \A k \in 0 .. a.chunks[b.chunk].capacity - 1 :
            k \notin b.at .. b.at + b.size - 1 => data[k] = a.chunks[b.chunk].data[k]
  BY DEF InArena, WritesOnly
<1>2. /\ ArenaOK(after)
      /\ DOMAIN after.chunks = DOMAIN a.chunks
      /\ \A c : InArena(a, c) => InArena(after, c)
      /\ \A d \in DOMAIN a.chunks : d # b.chunk => after.chunks[d] = a.chunks[d]
      /\ after.chunks[b.chunk].data = data
  BY <1>1, WriteFacts
<1> HIDE DEF after
<1>3. ASSUME NEW c \in BlockType, InArena(a, c), Apart(c, b)
      PROVE  Same(a, after, c)
  <2>1. c.chunk \in DOMAIN a.chunks /\ c.at + c.size <= a.chunks[c.chunk].occupied
    BY <1>3 DEF InArena
  <2>2. IsChunk(a.chunks[c.chunk])
    BY <2>1 DEF ArenaOK
  <2>3. CASE c.chunk # b.chunk
    BY <1>2, <2>1, <2>3 DEF Same, Load
  <2>4. CASE c.chunk = b.chunk
    <3>1. /\ c.at \in Nat /\ c.size \in Nat /\ b.at \in Nat /\ b.size \in Nat
          /\ c.at + c.size <= a.chunks[b.chunk].capacity /\ a.chunks[b.chunk].capacity \in Nat
      BY <2>1, <2>2, <2>4 DEF IsChunk, BlockType
    <3>2. c.at + c.size <= b.at \/ b.at + b.size <= c.at
      BY <1>3, <2>4 DEF Apart
    <3>4. ASSUME NEW k \in 0 .. c.size - 1
          PROVE  Load(after, c.chunk, c.at + k) = Load(a, c.chunk, c.at + k)
      <4> DEFINE cap == a.chunks[b.chunk].capacity
                 lo == b.at
                 size == b.size
                 from == c.at
                 n == c.size
                 j == from + k
      <4>1. /\ from \in Nat /\ n \in Nat /\ lo \in Nat /\ size \in Nat /\ cap \in Nat
            /\ from + n <= cap /\ (from + n <= lo \/ lo + size <= from)
            /\ k \in 0 .. n - 1
        BY <3>1, <3>2
      <4> HIDE DEF cap, lo, size, from, n
      <4>2. j \in 0 .. cap - 1 /\ j \notin lo .. lo + size - 1
        BY <4>1
      <4> HIDE DEF j
      <4>3. data[j] = a.chunks[b.chunk].data[j]
        BY <1>1, <4>2 DEF cap, lo, size
      <4>4. QED
        BY <1>2, <2>4, <4>3 DEF Load, j, from
    <3>5. QED
      BY <3>4 DEF Same
  <2>5. QED
    BY <2>3, <2>4
<1>4. \A k : Load(after, b.chunk, k) = data[k]
  BY <1>2 DEF Load
<1>5. QED
  BY <1>2, <1>3, <1>4 DEF after

\* A vector changes its record: the others are not disturbed.
LEMMA Replaced ==
    ASSUME NEW a, NEW vs, NEW strs, NEW shr, MemoryOK(a, vs, strs, shr),
           NEW v \in Vectors, NEW w, VectorIn(a, w),
           \A u \in Living(vs) \ {v} : /\ Clear(vs[u], HeaderBlock(w))
                                       /\ Clear(vs[u], DataBlock(w)),
           \A k \in DOMAIN strs : Clear(w, strs[k]),
           NEW shr2 \in SUBSET Vectors, shr \ {v} \subseteq shr2,
           v \notin shr2 => ZeroBehind(a, w)
    PROVE  LET after == [vs EXCEPT ![v] = w]
           IN  /\ MemoryOK(a, after, strs, shr2)
               /\ ListsOf(a, after) = [ListsOf(a, vs) EXCEPT ![v] = CellsOf(a, w)]
<1> DEFINE after == [vs EXCEPT ![v] = w]
<1>1. w \in VectorRecords /\ w # None
  BY NoneAssumption DEF VectorIn, IsVector
<1>2. /\ after \in [Vectors -> VectorRecords \cup {None}]
      /\ after[v] = w
      /\ \A u \in Vectors : u # v => after[u] = vs[u]
  BY <1>1 DEF MemoryOK
<1> HIDE DEF after
<1>3. \A u \in Living(after) : u # v => u \in Living(vs) \ {v} /\ after[u] = vs[u]
  BY <1>2 DEF Living
<1>4. ASSUME NEW u \in Living(after)
      PROVE  /\ VectorIn(a, after[u])
             /\ u \notin shr2 => ZeroBehind(a, after[u])
             /\ \A k \in DOMAIN strs : Clear(after[u], strs[k])
  <2>1. CASE u = v
    BY <1>2, <2>1
  <2>2. CASE u # v
    BY <1>3, <2>2 DEF MemoryOK
  <2>3. QED
    BY <2>1, <2>2
<1>5. ASSUME NEW t \in Living(after), NEW u \in Living(after), t # u
      PROVE  Clear(after[t], HeaderBlock(after[u])) /\ Clear(after[t], DataBlock(after[u]))
  <2>1. CASE u = v
    BY <1>2, <1>3, <1>5, <2>1
  <2>2. CASE t = v
    <3>1. u \in Living(vs) \ {v} /\ after[u] = vs[u]
      BY <1>3, <1>5, <2>2
    <3>2. Clear(vs[u], HeaderBlock(w)) /\ Clear(vs[u], DataBlock(w))
      BY <3>1
    <3>3. QED
      BY <1>2, <2>2, <3>1, <3>2, ApartSymmetric DEF Clear
  <2>3. CASE t # v /\ u # v
    BY <1>3, <1>5, <2>3 DEF MemoryOK
  <2>4. QED
    BY <2>1, <2>2, <2>3
<1>6. MemoryOK(a, after, strs, shr2)
  BY <1>2, <1>4, <1>5 DEF MemoryOK
<1>7. ListsOf(a, after) = [ListsOf(a, vs) EXCEPT ![v] = CellsOf(a, w)]
  BY <1>1, <1>2 DEF ListsOf
<1>8. QED
  BY <1>6, <1>7 DEF after

-----------------------------------------------------------------------------
(* The actions.                                                            *)
AllLists == ListsOf(arena, vectors)
AllTexts == TextsOf(arena, strings)

\* What an action does to one list and to none of the others.
ListBecomes(v, list) ==
    /\ IInv'
    /\ AllLists' = [AllLists EXCEPT ![v] = list]
    /\ AllTexts' = AllTexts

LEMMA StateOfMemory ==
    /\ IInv => MemoryOK(arena, vectors, strings, shrunk)
    /\ MemoryOK(arena', vectors', strings', shrunk') => IInv'
<1>1. MemoryOK(arena', vectors', strings', shrunk') = MemoryOK(arena, vectors, strings, shrunk)'
  BY DEF MemoryOK, VectorIn, IsVector, Living, Clear, ZeroBehind
<1>2. (IInv <=> MemoryOK(arena, vectors, strings, shrunk))'
  BY MemoryInvariant, PTL
<1>3. QED
  BY <1>1, <1>2, MemoryInvariant

\* A vector of which only the count goes down is in the blocks it was in.
LEMMA Shrunk ==
    ASSUME NEW a, NEW vs, NEW strs, NEW shr, MemoryOK(a, vs, strs, shr),
           NEW v \in Living(vs), NEW n \in 0 .. vs[v].count
    PROVE  LET w == [vs[v] EXCEPT !.count = n]
           IN  /\ VectorIn(a, w) /\ w.count = n
               /\ w.chunk = vs[v].chunk /\ w.at = vs[v].at /\ w.capacity = vs[v].capacity
               /\ \A u \in Living(vs) \ {v} : /\ Clear(vs[u], HeaderBlock(w))
                                              /\ Clear(vs[u], DataBlock(w))
               /\ \A k \in DOMAIN strs : Clear(w, strs[k])
<1> DEFINE w == [vs[v] EXCEPT !.count = n]
<1>1. IsVector(vs[v]) /\ VectorIn(a, vs[v])
  BY DEF MemoryOK, VectorIn
<1>2. /\ w.header = vs[v].header /\ w.chunk = vs[v].chunk /\ w.at = vs[v].at
      /\ w.capacity = vs[v].capacity /\ w.count = n /\ w \in VectorRecords
      /\ n < w.capacity
  BY <1>1 DEF IsVector, VectorRecords
<1> HIDE DEF w
<1>3. HeaderBlock(w) = HeaderBlock(vs[v]) /\ DataBlock(w) = DataBlock(vs[v])
  BY <1>2 DEF HeaderBlock, DataBlock
<1>4. VectorIn(a, w)
  BY <1>1, <1>2, <1>3 DEF VectorIn, IsVector
<1>5. /\ \A u \in Living(vs) \ {v} : Clear(vs[u], HeaderBlock(w)) /\ Clear(vs[u], DataBlock(w))
      /\ \A k \in DOMAIN strs : Clear(w, strs[k])
  BY <1>3 DEF MemoryOK, Clear
<1>6. QED
  BY <1>2, <1>4, <1>5 DEF w

\* A vector and its memory are made.
LEMMA CreateStep ==
    ASSUME IInv, NEW v \in Vectors, NEW capacity \in Capacities, CreateVector(v, capacity)
    PROVE  ListBecomes(v, << >>)
<1> DEFINE r == Allocate(arena, HeaderSize)
           s == Allocate(r.arena, capacity)
           w == [header |-> [chunk |-> r.chunk, at |-> r.at], chunk |-> s.chunk, at |-> s.at,
                 capacity |-> capacity, count |-> 0]
           hb == [chunk |-> r.chunk, at |-> r.at, size |-> HeaderSize]
           db == [chunk |-> s.chunk, at |-> s.at, size |-> capacity]
<1>1. /\ arena' = s.arena /\ vectors' = [vectors EXCEPT ![v] = w]
      /\ strings' = strings /\ shrunk' = shrunk
  BY DEF CreateVector
<1>2. HeaderSize \in Nat \ {0} /\ capacity \in Nat \ {0}
  BY VectorAssumption
<1>3. MemoryOK(arena, vectors, strings, shrunk)
  BY StateOfMemory
<1>4. Given(arena, HeaderSize, r.arena, r.chunk, r.at)
  BY <1>2, <1>3, AllocateGives DEF MemoryOK
<1>5. /\ MemoryOK(r.arena, vectors, strings, shrunk)
      /\ ListsOf(r.arena, vectors) = AllLists
      /\ TextsOf(r.arena, strings) = AllTexts
      /\ hb \in BlockType /\ InArena(r.arena, hb)
      /\ \A u \in Living(vectors) : Clear(vectors[u], hb)
      /\ \A k \in DOMAIN strings : Apart(strings[k], hb)
  BY <1>2, <1>3, <1>4, GivenKeeps DEF AllLists, AllTexts
<1>6. Given(r.arena, capacity, s.arena, s.chunk, s.at)
  BY <1>2, <1>5, AllocateGives DEF MemoryOK
<1>7. /\ MemoryOK(s.arena, vectors, strings, shrunk)
      /\ ListsOf(s.arena, vectors) = AllLists
      /\ TextsOf(s.arena, strings) = AllTexts
      /\ db \in BlockType /\ InArena(s.arena, db)
      /\ \A u \in Living(vectors) : Clear(vectors[u], db)
      /\ \A k \in DOMAIN strings : Apart(strings[k], db)
  BY <1>2, <1>5, <1>6, GivenKeeps
<1>8. InArena(s.arena, hb) /\ Apart(hb, db)
  BY <1>5, <1>6 DEF Given, BlockType
<1>9. ZeroBehind(s.arena, w)
  BY <1>6 DEF Given, ZeroBehind
<1> HIDE DEF r, s, hb, db
<1>10. VectorIn(s.arena, w) /\ HeaderBlock(w) = hb /\ DataBlock(w) = db
  <2>1. HeaderBlock(w) = hb /\ DataBlock(w) = db
    BY DEF HeaderBlock, DataBlock, hb, db
  <2>2. w \in VectorRecords /\ w.count < w.capacity
    BY <1>2, <1>5, <1>7 DEF VectorRecords, Places, BlockType, hb, db
  <2>3. QED
    BY <1>7, <1>8, <2>1, <2>2 DEF VectorIn, IsVector
<1>11. CellsOf(s.arena, w) = << >>
  <2>1. CellsOf(s.arena, w) \in [1 .. 0 -> Nat]
    BY DEF CellsOf
  <2>2. CellsOf(s.arena, w) \in Seq(Nat)
    BY <2>1, SeqDef
  <2>3. Len(CellsOf(s.arena, w)) = 0
    BY <2>1, <2>2, LenProperties
  <2>4. QED
    BY <2>2, <2>3, EmptySeq
<1> HIDE DEF w
<1>12. /\ \A u \in Living(vectors) \ {v} : /\ Clear(vectors[u], HeaderBlock(w))
                                           /\ Clear(vectors[u], DataBlock(w))
       /\ \A k \in DOMAIN strings : Clear(w, strings[k])
  BY <1>5, <1>7, <1>10, ApartSymmetric DEF Clear
<1>13. shrunk \in SUBSET Vectors /\ shrunk \ {v} \subseteq shrunk
  BY <1>3 DEF MemoryOK
<1> DEFINE after == [vectors EXCEPT ![v] = w]
<1>14. /\ MemoryOK(s.arena, after, strings, shrunk)
       /\ ListsOf(s.arena, after) = [ListsOf(s.arena, vectors) EXCEPT ![v] = CellsOf(s.arena, w)]
  BY <1>7, <1>9, <1>10, <1>12, <1>13, Replaced
<1>15. IInv'
  BY <1>1, <1>14, StateOfMemory
<1>16. AllLists' = [AllLists EXCEPT ![v] = << >>] /\ AllTexts' = AllTexts
  BY <1>1, <1>7, <1>11, <1>14 DEF AllLists, AllTexts
<1>17. QED
  BY <1>15, <1>16 DEF ListBecomes

\* The list of a vector, as a sequence.
LEMMA CellsFacts ==
    ASSUME NEW a, ArenaOK(a), NEW w, VectorIn(a, w)
    PROVE  /\ CellsOf(a, w) \in Seq(Nat)
           /\ Len(CellsOf(a, w)) = w.count
           /\ \A k \in 1 .. w.count : CellsOf(a, w)[k] = Load(a, w.chunk, w.at + k - 1)
           /\ \A k \in w.at .. w.at + w.capacity - 1 : /\ k \in 0 .. a.chunks[w.chunk].capacity - 1
                                                       /\ Load(a, w.chunk, k) \in Nat
<1>1. /\ w.count \in Nat /\ w.capacity \in Nat /\ w.at \in Nat /\ w.count < w.capacity
  BY BlocksTyped DEF VectorIn, IsVector
<1>2. w.chunk \in DOMAIN a.chunks /\ w.at + w.capacity <= a.chunks[w.chunk].occupied
  BY DEF VectorIn, InArena, DataBlock
<1>3. /\ a.chunks[w.chunk].capacity \in Nat
      /\ a.chunks[w.chunk].occupied \in 0 .. a.chunks[w.chunk].capacity
      /\ a.chunks[w.chunk].data \in [0 .. a.chunks[w.chunk].capacity - 1 -> Nat]
  BY <1>2 DEF ArenaOK, IsChunk
<1>4. ASSUME NEW k \in w.at .. w.at + w.capacity - 1
      PROVE  k \in 0 .. a.chunks[w.chunk].capacity - 1 /\ Load(a, w.chunk, k) \in Nat
  <2>1. k \in 0 .. a.chunks[w.chunk].capacity - 1
    BY <1>1, <1>2, <1>3
  <2>2. QED
    BY <1>3, <2>1 DEF Load
<1>5. \A k \in 1 .. w.count : Load(a, w.chunk, w.at + k - 1) \in Nat
  <2>1. \A k \in 1 .. w.count : w.at + k - 1 \in w.at .. w.at + w.capacity - 1
    BY <1>1
  <2>2. QED
    BY <1>4, <2>1
<1>6. CellsOf(a, w) \in [1 .. w.count -> Nat]
  BY <1>5 DEF CellsOf
<1>7. CellsOf(a, w) \in Seq(Nat)
  BY <1>1, <1>6, SeqDef
<1>8. Len(CellsOf(a, w)) = w.count
  BY <1>1, <1>6, <1>7, LenProperties
<1>9. QED
  BY <1>4, <1>7, <1>8 DEF CellsOf

LEMMA CellsOfPrefix ==
    ASSUME NEW a, ArenaOK(a), NEW w, VectorIn(a, w), NEW n \in 0 .. w.count,
           VectorIn(a, [w EXCEPT !.count = n])
    PROVE  CellsOf(a, [w EXCEPT !.count = n]) = SubSeq(CellsOf(a, w), 1, n)
<1> DEFINE u == [w EXCEPT !.count = n]
           s == CellsOf(a, w)
           t == CellsOf(a, u)
<1>1. w.count \in Nat /\ u.count = n /\ u.chunk = w.chunk /\ u.at = w.at
  BY BlocksTyped DEF VectorIn, IsVector, VectorRecords
<1>2a. VectorIn(a, u)
  OBVIOUS
<1> HIDE DEF u
<1>2. /\ s \in Seq(Nat) /\ Len(s) = w.count
      /\ \A k \in 1 .. w.count : s[k] = Load(a, w.chunk, w.at + k - 1)
  BY CellsFacts
<1>3. /\ t \in Seq(Nat) /\ Len(t) = n
      /\ \A k \in 1 .. n : t[k] = Load(a, w.chunk, w.at + k - 1)
  BY <1>1, <1>2a, CellsFacts
<1> HIDE DEF s, t
<1>4. 1 \in Int /\ n \in Int /\ \A k \in 1 .. n : s[k] \in Nat
  BY <1>1, <1>2
<1>5. /\ SubSeq(s, 1, n) \in Seq(Nat)
      /\ Len(SubSeq(s, 1, n)) = IF 1 <= n THEN n - 1 + 1 ELSE 0
      /\ \A k \in 1 .. n - 1 + 1 : SubSeq(s, 1, n)[k] = s[1 + k - 1]
  BY <1>4, SubSeqProperties
<1>6. Len(SubSeq(s, 1, n)) = n /\ \A k \in 1 .. n : SubSeq(s, 1, n)[k] = s[k]
  BY <1>1, <1>5
<1>7. \A k \in 1 .. Len(t) : t[k] = SubSeq(s, 1, n)[k]
  BY <1>1, <1>2, <1>3, <1>6
<1>8. t = SubSeq(s, 1, n)
  BY <1>3, <1>5, <1>6, <1>7, SeqEqual
<1>9. QED
  BY <1>8 DEF s, t, u

\* The count goes down and the memory stays: vector_pop and vector_reset.
Shortened(vs, v, n) == [vs EXCEPT ![v].count = n]
ListShortened(lists, v, n) == [lists EXCEPT ![v] = SubSeq(lists[v], 1, n)]
IsCount(vs, v, n) == n \in 0 .. vs[v].count

LEMMA ShrinkMemory ==
    ASSUME NEW a, NEW vs, NEW strs, NEW shr, MemoryOK(a, vs, strs, shr),
           NEW v \in Living(vs), NEW n, IsCount(vs, v, n)
    PROVE  /\ MemoryOK(a, Shortened(vs, v, n), strs, shr \cup {v})
           /\ ListsOf(a, Shortened(vs, v, n)) = ListShortened(ListsOf(a, vs), v, n)
<1> DEFINE w == [vs[v] EXCEPT !.count = n]
           marked == shr \cup {v}
<1>1. VectorIn(a, vs[v]) /\ v \in Vectors /\ ArenaOK(a) /\ n \in 0 .. vs[v].count
  BY DEF MemoryOK, Living, IsCount
<1>2. /\ VectorIn(a, w)
      /\ \A u \in Living(vs) \ {v} : Clear(vs[u], HeaderBlock(w)) /\ Clear(vs[u], DataBlock(w))
      /\ \A k \in DOMAIN strs : Clear(w, strs[k])
  BY <1>1, Shrunk
<1>3. CellsOf(a, w) = SubSeq(ListsOf(a, vs)[v], 1, n)
  <2>1. ListsOf(a, vs)[v] = CellsOf(a, vs[v])
    BY DEF ListsOf, Living
  <2>2. CellsOf(a, w) = SubSeq(CellsOf(a, vs[v]), 1, n)
    BY <1>1, <1>2, CellsOfPrefix
  <2>3. QED
    BY <2>1, <2>2
<1>4. marked \in SUBSET Vectors /\ shr \ {v} \subseteq marked /\ v \in marked
  BY <1>1 DEF MemoryOK
<1> HIDE DEF w, marked
<1>5. /\ MemoryOK(a, [vs EXCEPT ![v] = w], strs, marked)
      /\ ListsOf(a, [vs EXCEPT ![v] = w]) = [ListsOf(a, vs) EXCEPT ![v] = CellsOf(a, w)]
  BY <1>1, <1>2, <1>4, Replaced
<1>6. QED
  BY <1>3, <1>5 DEF w, marked, Shortened, ListShortened

LEMMA ShrinkStep ==
    ASSUME IInv, NEW v \in Living(vectors), NEW n \in 0 .. vectors[v].count,
           vectors' = [vectors EXCEPT ![v].count = n], shrunk' = shrunk \cup {v},
           UNCHANGED <<arena, strings>>
    PROVE  ListBecomes(v, SubSeq(AllLists[v], 1, n))
<1> DEFINE after == Shortened(vectors, v, n)
<1>1. MemoryOK(arena, vectors, strings, shrunk)
  BY StateOfMemory
<1>2. /\ MemoryOK(arena, after, strings, shrunk \cup {v})
      /\ ListsOf(arena, after) = ListShortened(ListsOf(arena, vectors), v, n)
  BY <1>1, ShrinkMemory DEF IsCount
<1>3. IInv'
  BY <1>2, StateOfMemory DEF Shortened
<1>4. QED
  BY <1>2, <1>3 DEF Shortened, ListShortened, ListBecomes, AllLists, AllTexts

\* The elements of a vector are written, and its record may change: the other
\* vectors and the texts are not disturbed.
Beside(vs, strs, v, w) ==
    /\ \A u \in Living(vs) \ {v} : Clear(vs[u], HeaderBlock(w)) /\ Clear(vs[u], DataBlock(w))
    /\ \A k \in DOMAIN strs : Clear(w, strs[k])

ZeroFrom(data, w) == \A k \in w.count .. w.capacity - 1 : data[w.at + k] = 0

WithVector(vs, v, w) == [vs EXCEPT ![v] = w]
WithList(lists, v, list) == [lists EXCEPT ![v] = list]

LEMMA Rewritten ==
    ASSUME NEW a, NEW vs, NEW strs, NEW shr, MemoryOK(a, vs, strs, shr),
           NEW v \in Vectors, NEW w, VectorIn(a, w), Beside(vs, strs, v, w),
           NEW data, WritesOnly(a, DataBlock(w), data),
           NEW shr2 \in SUBSET Vectors, shr \ {v} \subseteq shr2,
           v \notin shr2 => ZeroFrom(data, w)
    PROVE  /\ MemoryOK(Wrote(a, w.chunk, data), WithVector(vs, v, w), strs, shr2)
           /\ ListsOf(Wrote(a, w.chunk, data), WithVector(vs, v, w))
                  = WithList(ListsOf(a, vs), v, CellsOf(Wrote(a, w.chunk, data), w))
           /\ TextsOf(Wrote(a, w.chunk, data), strs) = TextsOf(a, strs)
           /\ VectorIn(Wrote(a, w.chunk, data), w)
           /\ \A k : Load(Wrote(a, w.chunk, data), w.chunk, k) = data[k]
<1> DEFINE b == DataBlock(w)
           after == Wrote(a, w.chunk, data)
           touched == {v}
           marked == shr \cup touched
<1>1. /\ ArenaOK(a) /\ b \in BlockType /\ InArena(a, b) /\ b.chunk = w.chunk
  BY BlocksTyped DEF MemoryOK, VectorIn, DataBlock
<1>2. \A u \in Living(vs) \ touched : /\ DataBlock(vs[u]) \in BlockType
                                      /\ InArena(a, DataBlock(vs[u]))
                                      /\ Apart(DataBlock(vs[u]), b)
  BY BlocksTyped DEF MemoryOK, VectorIn, Beside, Clear
<1>3. \A k \in DOMAIN strs : strs[k] \in BlockType /\ InArena(a, strs[k]) /\ Apart(strs[k], b)
  BY ApartSymmetric DEF MemoryOK, Beside, Clear
<1> HIDE DEF b
<1>4. /\ ArenaOK(after)
      /\ \A c : InArena(a, c) => InArena(after, c)
      /\ \A c \in BlockType : InArena(a, c) /\ Apart(c, b) => Same(a, after, c)
      /\ \A k : Load(after, w.chunk, k) = data[k]
  <2>1. WritesOnly(a, b, data)
    BY DEF b
  <2>2. QED
    BY <1>1, <2>1, WriteKeeps
<1> HIDE DEF after
<1>5. /\ \A u \in Living(vs) \ touched : Same(a, after, DataBlock(vs[u]))
      /\ \A k \in DOMAIN strs : Same(a, after, strs[k])
  BY <1>2, <1>3, <1>4
<1>6. touched \in SUBSET Vectors /\ v \in touched /\ marked \ {v} \subseteq shr2
  OBVIOUS
<1> HIDE DEF touched
<1>7. /\ MemoryOK(after, vs, strs, marked)
      /\ \A u \in Vectors \ touched : ListsOf(after, vs)[u] = ListsOf(a, vs)[u]
      /\ TextsOf(after, strs) = TextsOf(a, strs)
  BY <1>4, <1>5, <1>6, Kept
<1> HIDE DEF marked
<1>8. VectorIn(after, w)
  BY <1>4 DEF VectorIn
<1>9. v \notin shr2 => ZeroBehind(after, w)
  BY <1>4 DEF ZeroFrom, ZeroBehind
<1>10. /\ \A u \in Living(vs) \ {v} : Clear(vs[u], HeaderBlock(w)) /\ Clear(vs[u], DataBlock(w))
       /\ \A k \in DOMAIN strs : Clear(w, strs[k])
  BY DEF Beside
<1>11. /\ MemoryOK(after, [vs EXCEPT ![v] = w], strs, shr2)
       /\ ListsOf(after, [vs EXCEPT ![v] = w]) = [ListsOf(after, vs) EXCEPT ![v] = CellsOf(after, w)]
  BY <1>6, <1>7, <1>8, <1>9, <1>10, Replaced
<1>12. [ListsOf(after, vs) EXCEPT ![v] = CellsOf(after, w)]
           = [ListsOf(a, vs) EXCEPT ![v] = CellsOf(after, w)]
  BY <1>7 DEF ListsOf, touched
<1>13. QED
  BY <1>4, <1>7, <1>8, <1>11, <1>12 DEF after, WithVector, WithList

\* Removing one element of a sequence.
Without(s, k) == SubSeq(s, 1, k - 1) \o SubSeq(s, k + 1, Len(s))

LEMMA WithoutFacts ==
    ASSUME NEW S, NEW s \in Seq(S), NEW k \in 1 .. Len(s)
    PROVE  /\ Without(s, k) \in Seq(S)
           /\ Len(Without(s, k)) = Len(s) - 1
           /\ \A j \in 1 .. Len(s) - 1 : Without(s, k)[j] = IF j < k THEN s[j] ELSE s[j + 1]
<1> DEFINE m == k - 1
           n == k + 1
           l == Len(s)
           t == SubSeq(s, 1, m)
           u == SubSeq(s, n, l)
<1>1. /\ l \in Nat /\ m \in Nat /\ m < l /\ n = m + 2 /\ k = m + 1
      /\ \A i \in 1 .. l : s[i] \in S
  OBVIOUS
<1>2. Without(s, k) = t \o u
  BY DEF Without
<1> HIDE DEF m, n, l
<1>3. /\ \A i \in 1 .. m : s[i] \in S
      /\ \A i \in n .. l : s[i] \in S
      /\ 1 \in Int /\ m \in Int /\ n \in Int /\ l \in Int
  BY <1>1
<1>4. /\ t \in Seq(S) /\ Len(t) = (IF 1 <= m THEN m - 1 + 1 ELSE 0)
      /\ \A i \in 1 .. m - 1 + 1 : t[i] = s[1 + i - 1]
  BY <1>3, SubSeqProperties
<1>5. /\ u \in Seq(S) /\ Len(u) = (IF n <= l THEN l - n + 1 ELSE 0)
      /\ \A i \in 1 .. l - n + 1 : u[i] = s[n + i - 1]
  BY <1>3, SubSeqProperties
<1>6. Len(t) = m /\ \A i \in 1 .. m : t[i] = s[i]
  BY <1>1, <1>4
<1>7. Len(u) = l - m - 1 /\ \A i \in 1 .. l - m - 1 : u[i] = s[m + 1 + i]
  BY <1>1, <1>5
<1>8. /\ t \o u \in Seq(S) /\ Len(t \o u) = Len(t) + Len(u)
      /\ \A i \in 1 .. Len(t) + Len(u) : (t \o u)[i] = IF i <= Len(t) THEN t[i] ELSE u[i - Len(t)]
  BY <1>4, <1>5, ConcatProperties
<1> HIDE DEF t, u
<1>9. Len(t \o u) = l - 1
  BY <1>1, <1>6, <1>7, <1>8
<1>10. ASSUME NEW j \in 1 .. l - 1
       PROVE  (t \o u)[j] = IF j < k THEN s[j] ELSE s[j + 1]
  <2>1. (t \o u)[j] = IF j <= m THEN t[j] ELSE u[j - m]
    BY <1>1, <1>6, <1>7, <1>8
  <2>2. CASE j <= m
    BY <1>1, <1>6, <2>1, <2>2
  <2>3. CASE j > m
    <3>1. j - m \in 1 .. l - m - 1 /\ m + 1 + (j - m) = j + 1
      BY <1>1, <2>3
    <3>2. QED
      BY <1>1, <1>7, <2>1, <2>3, <3>1
  <2>4. j <= m \/ j > m
    BY <1>1
  <2>5. QED
    BY <2>2, <2>3, <2>4
<1>11. QED
  BY <1>2, <1>8, <1>9, <1>10 DEF l

\* vector_remove_element, on the cells of the vector's chunk.
OneLess(w) == [w EXCEPT !.count = @ - 1]

LEMMA MovedDownFacts ==
    ASSUME NEW a, ArenaOK(a), NEW w, VectorIn(a, w), NEW index \in Nat, index < w.count,
           VectorIn(a, OneLess(w)),
           NEW data, data = MovedDown(a.chunks[w.chunk].data, w, index)
    PROVE  /\ WritesOnly(a, DataBlock(OneLess(w)), data)
           /\ ZeroBehind(a, w) => ZeroFrom(data, OneLess(w))
           /\ \A after : (/\ ArenaOK(after) /\ VectorIn(after, OneLess(w))
                          /\ \A k : Load(after, w.chunk, k) = data[k])
                         => CellsOf(after, OneLess(w)) = Without(CellsOf(a, w), index + 1)
<1> DEFINE old == a.chunks[w.chunk].data
           size == a.chunks[w.chunk].capacity
           at == w.at
           count == w.count
           capacity == w.capacity
           u == OneLess(w)
<1>1. /\ count \in Nat /\ capacity \in Nat /\ at \in Nat /\ count < capacity
      /\ u.count = count - 1 /\ u.capacity = capacity /\ u.at = at /\ u.chunk = w.chunk
  BY BlocksTyped DEF VectorIn, IsVector, VectorRecords, OneLess
<1>2. w.chunk \in DOMAIN a.chunks /\ at + capacity <= a.chunks[w.chunk].occupied
  BY DEF VectorIn, InArena, DataBlock
<1>3. /\ size \in Nat /\ at + capacity <= size
      /\ old \in [0 .. size - 1 -> Nat]
  <2>1. IsChunk(a.chunks[w.chunk])
    BY <1>2 DEF ArenaOK
  <2>2. QED
    BY <1>1, <1>2, <2>1 DEF IsChunk
<1>4. CellsOf(a, w) \in Seq(Nat) /\ Len(CellsOf(a, w)) = count
      /\ \A k \in 1 .. count : CellsOf(a, w)[k] = old[at + k - 1]
  BY CellsFacts DEF Load
<1>5. DataBlock(u) = DataBlock(w)
  BY <1>1 DEF DataBlock
<1>6. /\ data = [k \in 0 .. size - 1 |-> data[k]]
      /\ \A k \in 0 .. size - 1 :
            data[k] = IF k = at + count - 1 THEN 0
                      ELSE IF k \in at + index .. at + count - 1 - 1 THEN old[k + 1]
                      ELSE old[k]
  <2> DEFINE last == at + count - 1
  <2>1. data = [k \in DOMAIN old |-> IF k = last THEN 0
                                     ELSE IF k \in at + index .. last - 1 THEN old[k + 1]
                                     ELSE old[k]]
    BY DEF MovedDown
  <2>2. DOMAIN old = 0 .. size - 1
    BY <1>3
  <2>3. last = at + count - 1
    OBVIOUS
  <2> HIDE DEF old, size, at, count, last
  <2>4. /\ DOMAIN data = 0 .. size - 1
        /\ \A k \in 0 .. size - 1 : data[k] = IF k = last THEN 0
                                              ELSE IF k \in at + index .. last - 1 THEN old[k + 1]
                                              ELSE old[k]
    BY <2>1, <2>2
  <2>5. data = [k \in 0 .. size - 1 |-> data[k]]
    BY <2>1, <2>2
  <2>6. QED
    BY <1>1, <2>3, <2>4, <2>5
<1>7. ZeroBehind(a, w) => \A k \in count .. capacity - 1 : old[at + k] = 0
  BY DEF ZeroBehind, Load
<1>8. index < count
  OBVIOUS
<1> HIDE DEF old, size, at, count, capacity, u
<1>9. \A k \in 0 .. size - 1 : k \in at + index .. at + count - 1 - 1 => k + 1 \in 0 .. size - 1
  BY <1>1, <1>3
<1>10. data \in [0 .. size - 1 -> Nat]
  BY <1>3, <1>6, <1>9
<1>11. \A k \in 0 .. size - 1 : k \notin at .. at + capacity - 1 => data[k] = old[k]
  <2>1. \A k \in 0 .. size - 1 : k \notin at .. at + capacity - 1 =>
            k # at + count - 1 /\ k \notin at + index .. at + count - 1 - 1
    BY <1>1, <1>3, <1>8
  <2>2. QED
    BY <1>6, <2>1
<1>12. WritesOnly(a, DataBlock(u), data)
  BY <1>5, <1>10, <1>11 DEF WritesOnly, DataBlock, old, size, at, capacity
<1>13. ASSUME \A k \in count .. capacity - 1 : old[at + k] = 0
       PROVE  \A k \in count - 1 .. capacity - 1 : data[at + k] = 0
  <2> SUFFICES ASSUME NEW k \in count - 1 .. capacity - 1
               PROVE  data[at + k] = 0
    OBVIOUS
  <2>1. at + k \in 0 .. size - 1 /\ at + k \notin at + index .. at + count - 1 - 1
    BY <1>1, <1>3, <1>8
  <2>2. CASE k = count - 1
    <3>1. at + k = at + count - 1
      BY <1>1, <2>2
    <3>2. QED
      BY <1>6, <2>1, <3>1
  <2>3. CASE k # count - 1
    <3>1. k \in count .. capacity - 1 /\ at + k # at + count - 1
      BY <1>1, <2>3
    <3>2. QED
      BY <1>6, <1>13, <2>1, <3>1
  <2>4. QED
    BY <2>2, <2>3
<1>14. ZeroBehind(a, w) => ZeroFrom(data, u)
  BY <1>1, <1>7, <1>13 DEF ZeroFrom
<1>15. ASSUME NEW after, ArenaOK(after), VectorIn(after, u),
              \A k : Load(after, w.chunk, k) = data[k]
       PROVE  CellsOf(after, u) = Without(CellsOf(a, w), index + 1)
  <2> DEFINE s == CellsOf(a, w)
             t == CellsOf(after, u)
             r == Without(s, index + 1)
  <2>1. /\ t \in Seq(Nat) /\ Len(t) = count - 1
        /\ \A j \in 1 .. count - 1 : t[j] = data[at + j - 1]
    <3>1. /\ t \in Seq(Nat) /\ Len(t) = u.count
          /\ \A j \in 1 .. u.count : t[j] = Load(after, u.chunk, u.at + j - 1)
      <4> HIDE DEF t
      <4>1. CellsOf(after, u) = t
        BY DEF t
      <4>2. QED
        BY <1>15, <4>1, CellsFacts
    <3>2. QED
      BY <1>1, <1>15, <3>1
  <2>2. s \in Seq(Nat) /\ Len(s) = count /\ index + 1 \in 1 .. Len(s)
    BY <1>1, <1>4, <1>8
  <2> HIDE DEF s, t
  <2>3. /\ r \in Seq(Nat) /\ Len(r) = count - 1
        /\ \A j \in 1 .. count - 1 : r[j] = IF j < index + 1 THEN s[j] ELSE s[j + 1]
    BY <2>2, WithoutFacts
  <2> HIDE DEF r
  <2>4. ASSUME NEW j \in 1 .. Len(t)
        PROVE  t[j] = r[j]
    <3>1. /\ j \in 1 .. count - 1 /\ at + j - 1 \in 0 .. size - 1
          /\ at + j - 1 # at + count - 1
          /\ j \in 1 .. count /\ j + 1 \in 1 .. count
          /\ at + (j + 1) - 1 = at + j - 1 + 1
      BY <1>1, <1>3, <2>1
    <3>2. at + j - 1 \in at + index .. at + count - 1 - 1 <=> ~(j < index + 1)
      BY <1>1, <1>8, <3>1
    <3>3. data[at + j - 1] = IF j < index + 1 THEN old[at + j - 1] ELSE old[at + j - 1 + 1]
      BY <1>6, <3>1, <3>2
    <3>4. s[j] = old[at + j - 1] /\ s[j + 1] = old[at + j - 1 + 1]
      BY <1>4, <3>1 DEF s
    <3>5. QED
      BY <2>1, <2>3, <3>1, <3>3, <3>4
  <2>5. t = r
    BY <2>1, <2>3, <2>4, SeqEqual
  <2>6. QED
    BY <2>5 DEF s, t, r
<1>16. QED
  BY <1>12, <1>14, <1>15 DEF u

LEMMA RemoveStep ==
    ASSUME IInv, NEW v \in Living(vectors), NEW index \in Nat, RemoveElement(v, index)
    PROVE  ListBecomes(v, Without(AllLists[v], index + 1))
<1> DEFINE old == vectors[v]
           n == old.count - 1
           w == OneLess(old)
           data == MovedDown(arena.chunks[old.chunk].data, old, index)
           after == Wrote(arena, w.chunk, data)
<1>1. MemoryOK(arena, vectors, strings, shrunk)
  BY StateOfMemory
<1>2. /\ v \in Vectors /\ ArenaOK(arena) /\ VectorIn(arena, old)
      /\ shrunk \in SUBSET Vectors
      /\ v \notin shrunk => ZeroBehind(arena, old)
  BY <1>1 DEF MemoryOK, Living
<1>3. index < old.count /\ old.count \in Nat
  BY <1>2, BlocksTyped DEF RemoveElement, VectorIn
<1>4. n \in 0 .. old.count
  BY <1>3
<1>5. w = [old EXCEPT !.count = n]
  BY DEF OneLess
<1>6. VectorIn(arena, w) /\ w.chunk = old.chunk /\ Beside(vectors, strings, v, w)
  BY <1>1, <1>4, <1>5, Shrunk DEF Beside
<1>7. /\ arena' = after
      /\ vectors' = WithVector(vectors, v, w)
      /\ strings' = strings /\ shrunk' = shrunk
  <2>1. /\ arena' = Wrote(arena, old.chunk, data)
        /\ vectors' = [vectors EXCEPT ![v].count = @ - 1]
        /\ strings' = strings /\ shrunk' = shrunk
    <3>1. arena' = Wrote(arena, old.chunk, data)
      BY DEF RemoveElement, Wrote
    <3>2. QED
      BY <3>1 DEF RemoveElement
  <2>2. QED
    BY <1>6, <2>1 DEF WithVector, OneLess
<1> HIDE DEF data
<1>8. /\ WritesOnly(arena, DataBlock(w), data)
      /\ v \notin shrunk => ZeroFrom(data, w)
      /\ \A x : (/\ ArenaOK(x) /\ VectorIn(x, w) /\ \A k : Load(x, old.chunk, k) = data[k])
                => CellsOf(x, w) = Without(CellsOf(arena, old), index + 1)
  BY <1>2, <1>3, <1>6, MovedDownFacts DEF data
<1> HIDE DEF w, old
<1>9. shrunk \ {v} \subseteq shrunk
  OBVIOUS
<1>10. /\ MemoryOK(after, WithVector(vectors, v, w), strings, shrunk)
       /\ ListsOf(after, WithVector(vectors, v, w)) = WithList(AllLists, v, CellsOf(after, w))
       /\ TextsOf(after, strings) = AllTexts
       /\ VectorIn(after, w)
       /\ \A k : Load(after, w.chunk, k) = data[k]
  BY <1>1, <1>2, <1>6, <1>8, <1>9, Rewritten DEF AllLists, AllTexts
<1> HIDE DEF after
<1>11. CellsOf(after, w) = Without(CellsOf(arena, old), index + 1)
  BY <1>6, <1>8, <1>10 DEF MemoryOK
<1>12. AllLists[v] = CellsOf(arena, old)
  BY <1>2 DEF AllLists, ListsOf, Living, old
<1>13. IInv'
  BY <1>7, <1>10, StateOfMemory
<1>14. AllLists' = WithList(AllLists, v, Without(AllLists[v], index + 1)) /\ AllTexts' = AllTexts
  BY <1>7, <1>10, <1>11, <1>12 DEF AllLists, AllTexts
<1>15. QED
  BY <1>13, <1>14 DEF ListBecomes, WithList

\* An element is added where there is room for it and one more.
OneMore(w) == [w EXCEPT !.count = @ + 1]

LEMMA AddMemory ==
    ASSUME NEW a, NEW vs, NEW strs, NEW shr, MemoryOK(a, vs, strs, shr),
           NEW v \in Living(vs), NEW value \in Nat,
           NEW old, old = vs[v], old.count + 1 < old.capacity,
           NEW after, after = Store(a, old.chunk, old.at + old.count, value)
    PROVE  /\ MemoryOK(after, WithVector(vs, v, OneMore(old)), strs, shr)
           /\ ListsOf(after, WithVector(vs, v, OneMore(old)))
                  = WithList(ListsOf(a, vs), v, Append(ListsOf(a, vs)[v], value))
           /\ TextsOf(after, strs) = TextsOf(a, strs)
<1> DEFINE w == OneMore(old)
           here == a.chunks[old.chunk].data
           size == a.chunks[old.chunk].capacity
           at == old.at
           count == old.count
           capacity == old.capacity
           data == [here EXCEPT ![at + count] = value]
<1>1. /\ v \in Vectors /\ ArenaOK(a) /\ VectorIn(a, old)
      /\ shr \in SUBSET Vectors
      /\ v \notin shr => ZeroBehind(a, old)
  BY DEF MemoryOK, Living
<1>2. /\ count \in Nat /\ capacity \in Nat /\ at \in Nat /\ count + 1 < capacity
      /\ w.count = count + 1 /\ w.capacity = capacity /\ w.at = at /\ w.chunk = old.chunk
      /\ w.header = old.header /\ w \in VectorRecords
  BY <1>1, BlocksTyped DEF VectorIn, IsVector, VectorRecords, OneMore
<1>3. HeaderBlock(w) = HeaderBlock(old) /\ DataBlock(w) = DataBlock(old)
  BY <1>2 DEF HeaderBlock, DataBlock
<1>4. VectorIn(a, w)
  BY <1>1, <1>2, <1>3 DEF VectorIn, IsVector
<1>5. Beside(vs, strs, v, w)
  BY <1>3 DEF MemoryOK, Beside, Clear
<1>6. /\ size \in Nat /\ at + capacity <= size /\ here \in [0 .. size - 1 -> Nat]
  <2>1. old.chunk \in DOMAIN a.chunks /\ at + capacity <= a.chunks[old.chunk].occupied
    BY <1>1 DEF VectorIn, InArena, DataBlock
  <2>2. IsChunk(a.chunks[old.chunk])
    BY <1>1, <2>1 DEF ArenaOK
  <2>3. QED
    BY <1>2, <2>1, <2>2 DEF IsChunk
<1>7. after = Wrote(a, w.chunk, data)
  BY <1>2 DEF Store, Wrote
<1>8. v \notin shr => \A k \in count .. capacity - 1 : here[at + k] = 0
  BY <1>1 DEF ZeroBehind, Load
<1>9. CellsOf(a, old) \in Seq(Nat) /\ Len(CellsOf(a, old)) = count
      /\ \A k \in 1 .. count : CellsOf(a, old)[k] = here[at + k - 1]
  BY <1>1, CellsFacts DEF Load
<1>10. ListsOf(a, vs)[v] = CellsOf(a, old)
  BY DEF ListsOf, Living
<1>11. DataBlock(old) = [chunk |-> old.chunk, at |-> at, size |-> capacity]
  BY DEF DataBlock
<1> HIDE DEF w, size, at, count, capacity
<1>12. /\ data \in [0 .. size - 1 -> Nat]
       /\ \A k \in 0 .. size - 1 : data[k] = IF k = at + count THEN value ELSE here[k]
  BY <1>2, <1>6
<1> HIDE DEF data
<1>13. WritesOnly(a, DataBlock(w), data)
  <2>1. \A k \in 0 .. size - 1 : k \notin at .. at + capacity - 1 => data[k] = here[k]
    <3>1. \A k \in 0 .. size - 1 : k \notin at .. at + capacity - 1 => k # at + count
      BY <1>2, <1>6
    <3>2. QED
      BY <1>12, <3>1
  <2>2. QED
    BY <1>3, <1>11, <1>12, <2>1 DEF WritesOnly, size
<1> HIDE DEF here
<1>14. v \notin shr => ZeroFrom(data, w)
  <2> SUFFICES ASSUME v \notin shr, NEW k \in w.count .. w.capacity - 1
               PROVE  data[w.at + k] = 0
    BY DEF ZeroFrom
  <2>1. /\ at + k \in 0 .. size - 1 /\ at + k # at + count /\ w.at = at
        /\ k \in count .. capacity - 1
    BY <1>2, <1>6
  <2>2. QED
    BY <1>8, <1>12, <2>1
<1>15. shr \ {v} \subseteq shr
  OBVIOUS
<1>16. /\ MemoryOK(after, WithVector(vs, v, w), strs, shr)
       /\ ListsOf(after, WithVector(vs, v, w)) = WithList(ListsOf(a, vs), v, CellsOf(after, w))
       /\ TextsOf(after, strs) = TextsOf(a, strs)
       /\ VectorIn(after, w)
       /\ \A k : Load(after, w.chunk, k) = data[k]
  BY <1>1, <1>4, <1>5, <1>7, <1>13, <1>14, <1>15, Rewritten
<1>17. CellsOf(after, w) = Append(CellsOf(a, old), value)
  <2> DEFINE s == CellsOf(a, old)
             t == CellsOf(after, w)
             r == Append(s, value)
  <2>1. /\ t \in Seq(Nat) /\ Len(t) = w.count
        /\ \A j \in 1 .. w.count : t[j] = Load(after, w.chunk, w.at + j - 1)
    <3> HIDE DEF t
    <3>1. CellsOf(after, w) = t /\ ArenaOK(after)
      BY <1>16 DEF t, MemoryOK
    <3>2. QED
      BY <1>16, <3>1, CellsFacts
  <2> HIDE DEF s, t
  <2>2. s \in Seq(Nat) /\ Len(s) = count /\ \A k \in 1 .. count : s[k] = here[at + k - 1]
    BY <1>9 DEF s
  <2>3. /\ r \in Seq(Nat) /\ Len(r) = count + 1
        /\ \A j \in 1 .. count : r[j] = s[j]
        /\ r[count + 1] = value
    BY <2>2, AppendProperties
  <2> HIDE DEF r
  <2>4. ASSUME NEW j \in 1 .. Len(t)
        PROVE  t[j] = r[j]
    <3>1. j \in 1 .. count + 1 /\ at + j - 1 \in 0 .. size - 1
      BY <1>2, <1>6, <2>1
    <3>2. t[j] = data[at + j - 1]
      BY <1>2, <1>16, <2>1
    <3>3. CASE j = count + 1
      <4>1. at + j - 1 = at + count
        BY <1>2, <3>3
      <4>2. QED
        BY <1>12, <2>3, <3>1, <3>2, <3>3, <4>1
    <3>4. CASE j # count + 1
      <4>1. j \in 1 .. count /\ at + j - 1 # at + count
        BY <1>2, <3>1, <3>4
      <4>2. QED
        BY <1>12, <2>2, <2>3, <3>1, <3>2, <4>1
    <3>5. QED
      BY <3>3, <3>4
  <2>5. t = r
    BY <1>2, <2>1, <2>3, <2>4, SeqEqual
  <2>6. QED
    BY <2>5 DEF s, t, r
<1>18. QED
  BY <1>10, <1>16, <1>17 DEF w

\* The elements of a vector are copied behind each other into a block.
CopiedCells(data, from, place, size, source) ==
    [k \in DOMAIN data |-> IF k \in place .. place + size - 1 THEN source[from + k - place]
                           ELSE data[k]]

HasCopy(new, n, data, from, place, size, source) ==
    /\ \A k \in 0 .. n - 1 : k \notin place .. place + size - 1 => new[k] = data[k]
    /\ \A k \in 0 .. size - 1 : new[place + k] = source[from + k]

IsCells(data, n) == n \in Nat /\ data \in [0 .. n - 1 -> Nat]

LEMMA CopyFacts ==
    ASSUME NEW n, NEW m, NEW data, NEW source, IsCells(data, n), IsCells(source, m),
           NEW from \in Nat, NEW place \in Nat, NEW size \in Nat,
           from + size <= m, place + size <= n
    PROVE  /\ IsCells(CopiedCells(data, from, place, size, source), n)
           /\ HasCopy(CopiedCells(data, from, place, size, source), n,
                      data, from, place, size, source)
<1> DEFINE new == CopiedCells(data, from, place, size, source)
<1>0. /\ n \in Nat /\ data \in [0 .. n - 1 -> Nat]
      /\ m \in Nat /\ source \in [0 .. m - 1 -> Nat]
  BY DEF IsCells
<1>1. \A k \in place .. place + size - 1 : from + k - place \in 0 .. m - 1
  BY <1>0
<1>2. DOMAIN data = 0 .. n - 1
  BY <1>0
<1>3. new \in [0 .. n - 1 -> Nat]
  BY <1>0, <1>1, <1>2 DEF CopiedCells
<1>4. \A k \in 0 .. n - 1 : new[k] = IF k \in place .. place + size - 1
                                     THEN source[from + k - place] ELSE data[k]
  BY <1>2 DEF CopiedCells
<1>5. ASSUME NEW k \in 0 .. size - 1
      PROVE  new[place + k] = source[from + k]
  <2>1. place + k \in 0 .. n - 1 /\ place + k \in place .. place + size - 1
        /\ from + (place + k) - place = from + k
    BY <1>0
  <2> HIDE DEF new
  <2>2. new[place + k] = source[from + (place + k) - place]
    BY <1>4, <2>1
  <2>3. QED
    BY <2>1, <2>2
<1>6. QED
  BY <1>0, <1>3, <1>4, <1>5 DEF IsCells, HasCopy

\* A vector moves to a place of twice its size.
Enlarged(w, chunk, at) == [w EXCEPT !.chunk = chunk, !.at = at, !.capacity = 2 * w.capacity]

LEMMA GrowMemory ==
    ASSUME NEW a, NEW vs, NEW strs, NEW shr, MemoryOK(a, vs, strs, shr),
           NEW v \in Living(vs), NEW old, old = vs[v],
           NEW a2, NEW place, NEW offset, Given(a, 2 * old.capacity, a2, place, offset),
           NEW after,
           after = Wrote(a2, place, CopiedCells(a2.chunks[place].data, old.at, offset, old.capacity,
                                                a2.chunks[old.chunk].data))
    PROVE  /\ MemoryOK(after, WithVector(vs, v, Enlarged(old, place, offset)), strs, shr)
           /\ ListsOf(after, WithVector(vs, v, Enlarged(old, place, offset))) = ListsOf(a, vs)
           /\ TextsOf(after, strs) = TextsOf(a, strs)
<1> DEFINE w == Enlarged(old, place, offset)
           at == old.at
           count == old.count
           capacity == old.capacity
           size == 2 * capacity
           new == [chunk |-> place, at |-> offset, size |-> size]
           from == a2.chunks[old.chunk].data
           to == a2.chunks[place].data
           m == a2.chunks[old.chunk].capacity
           n == a2.chunks[place].capacity
           data == CopiedCells(to, at, offset, capacity, from)
<1>1. v \in Vectors /\ ArenaOK(a) /\ VectorIn(a, old) /\ shr \in SUBSET Vectors
  BY DEF MemoryOK, Living
<1>2. count \in Nat /\ capacity \in Nat \ {0} /\ at \in Nat /\ count < capacity
  BY <1>1, BlocksTyped DEF VectorIn, IsVector
<1>3. size \in Nat \ {0}
  BY <1>2
<1> HIDE DEF size
<1>4. /\ MemoryOK(a2, vs, strs, shr)
      /\ ListsOf(a2, vs) = ListsOf(a, vs)
      /\ TextsOf(a2, strs) = TextsOf(a, strs)
      /\ new \in BlockType /\ InArena(a2, new)
      /\ \A u \in Living(vs) : Clear(vs[u], new)
      /\ \A k \in DOMAIN strs : Apart(strs[k], new)
  <2>1. Given(a, size, a2, place, offset)
    BY DEF size
  <2>2. QED
    BY <1>3, <2>1, GivenKeeps
<1>5. \A k \in 0 .. size - 1 : to[offset + k] = 0
  <2>1. \A k \in 0 .. size - 1 : Load(a2, place, offset + k) = 0
    BY DEF Given, size
  <2>2. QED
    BY <2>1 DEF Load
<1>6. place \in Nat /\ offset \in Nat
  BY <1>4 DEF BlockType
<1>7. /\ w.header = old.header /\ w.chunk = place /\ w.at = offset
      /\ w.capacity = size /\ w.count = count /\ w \in VectorRecords /\ count < size
  <2>1. /\ old = [header |-> old.header, chunk |-> old.chunk, at |-> old.at,
                  capacity |-> capacity, count |-> count]
        /\ old.header \in Places
    BY <1>1 DEF VectorIn, IsVector, VectorRecords
  <2>2. w = [header |-> old.header, chunk |-> place, at |-> offset,
             capacity |-> size, count |-> count]
    <3> DEFINE x == [old EXCEPT !.chunk = place]
               y == [x EXCEPT !.at = offset]
               z == [y EXCEPT !.capacity = size]
    <3>1. w = z
      BY DEF Enlarged, size
    <3>2. x = [header |-> old.header, chunk |-> place, at |-> old.at,
               capacity |-> old.capacity, count |-> old.count]
      BY <2>1
    <3> HIDE DEF x
    <3>3. y = [header |-> old.header, chunk |-> place, at |-> offset,
               capacity |-> old.capacity, count |-> old.count]
      BY <3>2
    <3> HIDE DEF y
    <3>4. z = [header |-> old.header, chunk |-> place, at |-> offset,
               capacity |-> size, count |-> old.count]
      BY <3>3
    <3>5. QED
      BY <3>1, <3>4
  <2>3. count < size
    BY <1>2 DEF size
  <2> HIDE DEF w
  <2>4. QED
    BY <1>2, <1>3, <1>6, <2>1, <2>2, <2>3 DEF VectorRecords
<1>8. HeaderBlock(w) = HeaderBlock(old) /\ DataBlock(w) = new
  BY <1>7 DEF HeaderBlock, DataBlock
<1>9. /\ ArenaOK(a2) /\ VectorIn(a2, old)
      /\ v \notin shr => ZeroBehind(a2, old)
      /\ Clear(old, new)
  BY <1>4 DEF MemoryOK
<1>10. VectorIn(a2, w)
  BY <1>4, <1>7, <1>8, <1>9 DEF VectorIn, IsVector, Clear
<1>11. Beside(vs, strs, v, w)
  BY <1>4, <1>8, ApartSymmetric DEF MemoryOK, Beside, Clear
<1>12. /\ m \in Nat /\ from \in [0 .. m - 1 -> Nat] /\ at + capacity <= m
       /\ n \in Nat /\ to \in [0 .. n - 1 -> Nat] /\ offset + size <= n
  <2> DEFINE p == a2.chunks[old.chunk].occupied
             q == a2.chunks[place].occupied
  <2>1. /\ old.chunk \in DOMAIN a2.chunks /\ at + capacity <= p
        /\ place \in DOMAIN a2.chunks /\ offset + size <= q
    BY <1>4, <1>9 DEF VectorIn, InArena, DataBlock
  <2>2. IsChunk(a2.chunks[old.chunk]) /\ IsChunk(a2.chunks[place])
    BY <1>9, <2>1 DEF ArenaOK
  <2>3. /\ m \in Nat /\ from \in [0 .. m - 1 -> Nat]
        /\ p \in 0 .. m
    BY <2>2 DEF IsChunk
  <2>4. /\ n \in Nat /\ to \in [0 .. n - 1 -> Nat]
        /\ q \in 0 .. n
    BY <2>2 DEF IsChunk
  <2> HIDE DEF m, n, from, to, at, capacity, p, q
  <2>5. at + capacity <= m
    BY <1>2, <2>1, <2>3
  <2>6. offset + size <= n
    BY <1>3, <1>6, <2>1, <2>4
  <2>7. QED
    BY <2>3, <2>4, <2>5, <2>6
<1>13. size = 2 * capacity /\ offset + capacity <= n
  BY <1>2, <1>6, <1>12 DEF size
<1>14. v \notin shr => \A k \in count .. capacity - 1 : from[at + k] = 0
  BY <1>9 DEF ZeroBehind, Load
<1>15. after = Wrote(a2, w.chunk, data)
  BY <1>7
<1> DEFINE s == CellsOf(a2, old)
<1>16. s \in Seq(Nat) /\ Len(s) = count /\ \A k \in 1 .. count : s[k] = from[at + k - 1]
  <2>1. /\ s \in Seq(Nat) /\ Len(s) = count
        /\ \A k \in 1 .. count : s[k] = Load(a2, old.chunk, at + k - 1)
    BY <1>9, CellsFacts
  <2>2. QED
    BY <2>1 DEF Load
<1>17. ListsOf(a2, vs)[v] = s /\ ListsOf(a2, vs) = [ListsOf(a2, vs) EXCEPT ![v] = s]
  BY <1>1 DEF ListsOf, Living
<1>18. /\ data \in [0 .. n - 1 -> Nat]
       /\ \A k \in 0 .. n - 1 : k \notin offset .. offset + capacity - 1 => data[k] = to[k]
       /\ \A k \in 0 .. capacity - 1 : data[offset + k] = from[at + k]
  <2> HIDE DEF at, capacity, from, to, m, n
  <2>1. IsCells(to, n) /\ IsCells(from, m)
    BY <1>12 DEF IsCells
  <2>2. /\ at \in Nat /\ offset \in Nat /\ capacity \in Nat
        /\ at + capacity <= m /\ offset + capacity <= n
    BY <1>2, <1>6, <1>12, <1>13
  <2>3. IsCells(data, n)
    BY <2>1, <2>2, CopyFacts
  <2>4. /\ \A k \in 0 .. n - 1 : k \notin offset .. offset + capacity - 1 => data[k] = to[k]
        /\ \A k \in 0 .. capacity - 1 : data[offset + k] = from[at + k]
    <3>1. HasCopy(data, n, to, at, offset, capacity, from)
      BY <2>1, <2>2, CopyFacts
    <3> HIDE DEF data
    <3>2. QED
      BY <3>1 DEF HasCopy
  <2>5. QED
    BY <2>3, <2>4 DEF IsCells
<1> HIDE DEF w, data, s, at, count, capacity
<1>19. WritesOnly(a2, DataBlock(w), data)
  <2>1. \A k \in 0 .. n - 1 : k \notin offset .. offset + size - 1
                              => k \notin offset .. offset + capacity - 1
    BY <1>2, <1>6, <1>12, <1>13
  <2>2. QED
    BY <1>8, <1>18, <2>1 DEF WritesOnly
<1> HIDE DEF from, to, m, n
<1>20. v \notin shr => ZeroFrom(data, w)
  <2> SUFFICES ASSUME v \notin shr, NEW k \in count .. size - 1
               PROVE  data[offset + k] = 0
    BY <1>7 DEF ZeroFrom
  <2>1. CASE k < capacity
    <3>1. k \in 0 .. capacity - 1 /\ k \in count .. capacity - 1
      BY <1>2, <1>3, <2>1
    <3>2. QED
      BY <1>14, <1>18, <3>1
  <2>2. CASE k >= capacity
    <3>1. /\ offset + k \in 0 .. n - 1 /\ offset + k \notin offset .. offset + capacity - 1
          /\ k \in 0 .. size - 1
      BY <1>2, <1>3, <1>6, <1>12, <2>2
    <3>2. QED
      BY <1>5, <1>18, <3>1
  <2>3. k < capacity \/ k >= capacity
    BY <1>2, <1>3
  <2>4. QED
    BY <2>1, <2>2, <2>3
<1>21. shr \ {v} \subseteq shr
  OBVIOUS
<1>22. /\ MemoryOK(after, WithVector(vs, v, w), strs, shr)
       /\ ListsOf(after, WithVector(vs, v, w)) = WithList(ListsOf(a2, vs), v, CellsOf(after, w))
       /\ TextsOf(after, strs) = TextsOf(a2, strs)
       /\ VectorIn(after, w)
       /\ \A k : Load(after, w.chunk, k) = data[k]
  BY <1>1, <1>4, <1>10, <1>11, <1>15, <1>19, <1>20, <1>21, Rewritten
<1>23. CellsOf(after, w) = s
  <2> DEFINE t == CellsOf(after, w)
  <2>1. /\ t \in Seq(Nat) /\ Len(t) = w.count
        /\ \A j \in 1 .. w.count : t[j] = Load(after, w.chunk, w.at + j - 1)
    <3> HIDE DEF t
    <3>1. CellsOf(after, w) = t /\ ArenaOK(after)
      BY <1>22 DEF t, MemoryOK
    <3>2. QED
      BY <1>22, <3>1, CellsFacts
  <2> HIDE DEF t
  <2>2. ASSUME NEW j \in 1 .. Len(t)
        PROVE  t[j] = s[j]
    <3>1. /\ j \in 1 .. count /\ j - 1 \in 0 .. capacity - 1
          /\ offset + j - 1 = offset + (j - 1) /\ at + j - 1 = at + (j - 1)
      BY <1>2, <1>6, <1>7, <2>1
    <3>2. t[j] = data[offset + (j - 1)]
      BY <1>7, <1>22, <2>1, <3>1
    <3>3. QED
      BY <1>16, <1>18, <3>1, <3>2
  <2>3. t = s
    BY <1>7, <1>16, <2>1, <2>2, SeqEqual
  <2>4. QED
    BY <2>3 DEF t
<1>24. QED
  BY <1>4, <1>17, <1>22, <1>23 DEF w, WithList

LEMMA AddStep ==
    ASSUME IInv, NEW v \in Living(vectors), NEW value \in Values, Add(v, value)
    PROVE  ListBecomes(v, Append(AllLists[v], value))
<1> DEFINE old == vectors[v]
           room == IF NeedsRoom(old) THEN Grown(old) ELSE [arena |-> arena, vector |-> old]
           between == WithVector(vectors, v, room.vector)
           after == Store(room.arena, room.vector.chunk, room.vector.at + room.vector.count, value)
           w == OneMore(room.vector)
<1>1. MemoryOK(arena, vectors, strings, shrunk) /\ value \in Nat
  BY StateOfMemory, VectorAssumption
<1>2. v \in Vectors /\ VectorIn(arena, old) /\ ArenaOK(arena)
  BY <1>1 DEF MemoryOK, Living
<1>3. old.count \in Nat /\ old.capacity \in Nat \ {0} /\ old.count < old.capacity
  BY <1>2, BlocksTyped DEF VectorIn, IsVector
<1>4. /\ arena' = after /\ vectors' = [vectors EXCEPT ![v] = w]
      /\ strings' = strings /\ shrunk' = shrunk
  BY DEF Add, OneMore
<1>5. /\ MemoryOK(room.arena, between, strings, shrunk)
      /\ ListsOf(room.arena, between) = AllLists
      /\ TextsOf(room.arena, strings) = AllTexts
      /\ room.vector.count + 1 < room.vector.capacity
      /\ room.vector # None
  <2>1. CASE NeedsRoom(old)
    <3> DEFINE r == Allocate(arena, 2 * old.capacity)
               e == Enlarged(old, r.chunk, r.at)
               a == Wrote(r.arena, r.chunk, CopiedCells(r.arena.chunks[r.chunk].data, old.at, r.at,
                                                        old.capacity, r.arena.chunks[old.chunk].data))
    <3>1. room.arena = a /\ room.vector = e
      BY <2>1 DEF Grown, Copied, Enlarged, Wrote, CopiedCells, Load
    <3>2. 2 * old.capacity \in Nat \ {0}
      BY <1>3
    <3>3. Given(arena, 2 * old.capacity, r.arena, r.chunk, r.at)
      BY <1>2, <3>2, AllocateGives
    <3>4. old.count + 1 < 2 * old.capacity
      BY <1>3, <2>1 DEF NeedsRoom
    <3>5. e.count = old.count /\ e.capacity = 2 * old.capacity
      BY <1>2 DEF Enlarged, VectorIn, IsVector, VectorRecords
    <3> HIDE DEF r, room, old
    <3>6. /\ MemoryOK(a, WithVector(vectors, v, e), strings, shrunk)
          /\ ListsOf(a, WithVector(vectors, v, e)) = ListsOf(arena, vectors)
          /\ TextsOf(a, strings) = TextsOf(arena, strings)
      <4>1. old = vectors[v]
        BY DEF old
      <4>2. QED
        BY <1>1, <3>3, <4>1, GrowMemory
    <3>7. e # None
      <4>1. WithVector(vectors, v, e)[v] = e /\ vectors \in [Vectors -> VectorRecords \cup {None}]
        BY <1>1, <1>2 DEF WithVector, MemoryOK
      <4>2. e \in VectorRecords
        BY <1>2, <3>2, <3>3 DEF Enlarged, Given, VectorIn, IsVector, VectorRecords
      <4>3. QED
        BY <4>2, NoneAssumption
    <3>8. QED
      BY <3>1, <3>4, <3>5, <3>6, <3>7 DEF AllLists, AllTexts
  <2>2. CASE ~NeedsRoom(old)
    <3>1. room.arena = arena /\ room.vector = old
      BY <2>2
    <3>2. old.count + 1 < old.capacity
      BY <1>3, <2>2 DEF NeedsRoom
    <3>3. between = vectors
      BY <1>1, <3>1 DEF WithVector, MemoryOK
    <3>4. old # None
      BY DEF Living
    <3>5. QED
      BY <1>1, <3>1, <3>2, <3>3, <3>4 DEF AllLists, AllTexts
  <2>3. QED
    BY <2>1, <2>2
<1> HIDE DEF old, room
<1>6. v \in Living(between) /\ room.vector = between[v]
  BY <1>1, <1>2, <1>5 DEF WithVector, MemoryOK, Living
<1>7. WithVector(between, v, w) = [vectors EXCEPT ![v] = w]
  BY <1>1 DEF WithVector, MemoryOK
<1> HIDE DEF between
<1>8. /\ MemoryOK(after, WithVector(between, v, w), strings, shrunk)
      /\ ListsOf(after, WithVector(between, v, w))
             = WithList(AllLists, v, Append(AllLists[v], value))
      /\ TextsOf(after, strings) = AllTexts
  <2> DEFINE o == room.vector
             a == room.arena
  <2>1. /\ o = between[v] /\ o.count + 1 < o.capacity
        /\ after = Store(a, o.chunk, o.at + o.count, value)
    BY <1>5, <1>6
  <2> HIDE DEF o, a, after
  <2>2. /\ MemoryOK(a, between, strings, shrunk) /\ ListsOf(a, between) = AllLists
        /\ TextsOf(a, strings) = AllTexts
    BY <1>5 DEF a
  <2>3. /\ MemoryOK(after, WithVector(between, v, OneMore(o)), strings, shrunk)
        /\ ListsOf(after, WithVector(between, v, OneMore(o)))
               = WithList(ListsOf(a, between), v, Append(ListsOf(a, between)[v], value))
        /\ TextsOf(after, strings) = TextsOf(a, strings)
    BY <1>1, <1>6, <2>1, <2>2, AddMemory
  <2>4. QED
    BY <2>2, <2>3 DEF o
<1> HIDE DEF after, w
<1>9. IInv'
  BY <1>4, <1>7, <1>8, StateOfMemory
<1>10. AllLists' = WithList(AllLists, v, Append(AllLists[v], value)) /\ AllTexts' = AllTexts
  BY <1>4, <1>7, <1>8 DEF AllLists, AllTexts
<1>11. QED
  BY <1>9, <1>10 DEF ListBecomes, WithList

\* A function on 1 .. n + 1 that extends one on 1 .. n appends to it.
IsTuple(s, n) == s = [k \in 1 .. n |-> s[k]]
Extends(t, s, n, e) == t[n + 1] = e /\ \A k \in 1 .. n : t[k] = s[k]

LEMMA AppendIs ==
    ASSUME NEW n \in Nat, NEW s, NEW t, NEW e,
           IsTuple(s, n), IsTuple(t, n + 1), Extends(t, s, n, e)
    PROVE  t = Append(s, e)
<1>0. /\ s = [k \in 1 .. n |-> s[k]] /\ t = [k \in 1 .. n + 1 |-> t[k]]
      /\ (\A k \in 1 .. n : t[k] = s[k]) /\ t[n + 1] = e
  BY DEF IsTuple, Extends
<1> DEFINE S == {s[k] : k \in 1 .. n} \cup {e}
           r == Append(s, e)
<1>1. /\ \A k \in 1 .. n : s[k] \in S
      /\ e \in S
      /\ \A k \in 1 .. n + 1 : t[k] \in S
  <2>1. (\A k \in 1 .. n : s[k] \in S) /\ e \in S
    OBVIOUS
  <2>2. \A k \in 1 .. n + 1 : k \in 1 .. n \/ k = n + 1
    OBVIOUS
  <2> HIDE DEF S
  <2>3. QED
    BY <1>0, <2>1, <2>2
<1> HIDE DEF S
<1>2. s \in [1 .. n -> S] /\ t \in [1 .. n + 1 -> S]
  BY <1>0, <1>1
<1>3. n + 1 \in Nat
  OBVIOUS
<1>4. s \in Seq(S) /\ t \in Seq(S)
  BY <1>2, <1>3, SeqDef
<1>5. Len(s) = n /\ Len(t) = n + 1
  BY <1>2, <1>4, LenProperties
<1>6. /\ r \in Seq(S) /\ Len(r) = n + 1
      /\ \A k \in 1 .. n : r[k] = s[k]
      /\ r[n + 1] = e
  BY <1>1, <1>4, <1>5, AppendProperties
<1> HIDE DEF r
<1>7. \A k \in 1 .. Len(t) : t[k] = r[k]
  <2>1. \A k \in 1 .. Len(t) : k \in 1 .. n \/ k = n + 1
    BY <1>5
  <2>2. QED
    BY <1>0, <1>6, <2>1
<1>8. t = r
  BY <1>4, <1>5, <1>6, <1>7, SeqEqual
<1>9. QED
  BY <1>8 DEF r

\* One more text, in a block of its own.
TextOf(a, b) == [j \in 1 .. b.size - 1 |-> Load(a, b.chunk, b.at + j - 1)]

LEMMA TextAdded ==
    ASSUME NEW a, NEW vs, NEW strs, NEW shr, MemoryOK(a, vs, strs, shr),
           NEW b \in BlockType, InArena(a, b),
           \A v \in Living(vs) : Clear(vs[v], b),
           \A k \in DOMAIN strs : Apart(strs[k], b)
    PROVE  /\ MemoryOK(a, vs, Append(strs, b), shr)
           /\ TextsOf(a, Append(strs, b)) = Append(TextsOf(a, strs), TextOf(a, b))
<1> DEFINE more == Append(strs, b)
           n == Len(strs)
<1>1. /\ strs \in Seq(BlockType) /\ n \in Nat /\ DOMAIN strs = 1 .. n
  BY DEF MemoryOK
<1>2. /\ more \in Seq(BlockType) /\ Len(more) = n + 1
      /\ \A k \in 1 .. n : more[k] = strs[k]
      /\ more[n + 1] = b
  BY <1>1, AppendProperties
<1> HIDE DEF more, n
<1>3. DOMAIN more = 1 .. n + 1
  BY <1>1, <1>2
<1>4. \A k \in 1 .. n + 1 : \/ k \in 1 .. n /\ more[k] = strs[k] /\ k # n + 1
                            \/ k = n + 1 /\ more[k] = b
  BY <1>1, <1>2
<1>5. /\ \A k \in DOMAIN more : InArena(a, more[k])
      /\ \A v \in Living(vs), k \in DOMAIN more : Clear(vs[v], more[k])
  BY <1>1, <1>3, <1>4 DEF MemoryOK
<1>6. \A j, k \in DOMAIN more : j # k => Apart(more[j], more[k])
  BY <1>1, <1>3, <1>4, ApartSymmetric DEF MemoryOK
<1>7. MemoryOK(a, vs, more, shr)
  BY <1>2, <1>5, <1>6 DEF MemoryOK
<1> DEFINE s == TextsOf(a, strs)
           t == TextsOf(a, more)
           e == TextOf(a, b)
<1>8. /\ s = [k \in 1 .. n |-> s[k]] /\ t = [k \in 1 .. n + 1 |-> t[k]]
      /\ \A k \in 1 .. n : s[k] = TextOf(a, strs[k])
      /\ \A k \in 1 .. n + 1 : t[k] = TextOf(a, more[k])
  BY <1>1, <1>3 DEF TextsOf, TextOf
<1> HIDE DEF s, t, e
<1>9. (\A k \in 1 .. n : t[k] = s[k]) /\ t[n + 1] = e
  <2>1. \A k \in 1 .. n : k \in 1 .. n + 1 /\ n + 1 \in 1 .. n + 1
    BY <1>1
  <2>2. n + 1 \in 1 .. n + 1
    BY <1>1
  <2>3. QED
    BY <1>2, <1>8, <2>1, <2>2 DEF e
<1>10. t = Append(s, e)
  <2>1. IsTuple(s, n) /\ IsTuple(t, n + 1) /\ Extends(t, s, n, e)
    BY <1>8, <1>9 DEF IsTuple, Extends
  <2>2. QED
    BY <1>1, <2>1, AppendIs
<1>11. QED
  BY <1>7, <1>10 DEF more, s, t, e

\* What an action does that adds a text.
TextIsAdded(text) ==
    /\ IInv'
    /\ AllLists' = AllLists
    /\ AllTexts' = Append(AllTexts, text)

WithText(data, at, text) ==
    [k \in DOMAIN data |-> IF k \in at .. at + Len(text) - 1 THEN text[k - at + 1] ELSE data[k]]

LEMMA StrdupStep ==
    ASSUME IInv, NEW text \in Strings, Strdup(text)
    PROVE  TextIsAdded(text)
<1> DEFINE size == Len(text) + 1
           r == Allocate(arena, size)
           place == r.chunk
           at == r.at
           a == r.arena
           b == [chunk |-> place, at |-> at, size |-> size]
           n == a.chunks[place].capacity
           old == a.chunks[place].data
           data == WithText(old, at, text)
           after == Wrote(a, b.chunk, data)
           touched == {}
<1>1. MemoryOK(arena, vectors, strings, shrunk)
  BY StateOfMemory
<1>2. text \in Seq(Nat) /\ Len(text) \in Nat /\ size \in Nat \ {0}
  <2>1. text \in Seq(Values) /\ Values \subseteq Nat
    BY VectorAssumption
  <2>2. text \in Seq(Nat)
    BY <2>1, SeqMonotonic
  <2>3. Len(text) \in Nat
    BY <2>2, LenProperties
  <2>4. QED
    BY <2>2, <2>3
<1>3. /\ arena' = after /\ strings' = Append(strings, b)
      /\ vectors' = vectors /\ shrunk' = shrunk
  BY DEF Strdup, Wrote, WithText
<1> DEFINE len == Len(text)
<1>4. size = len + 1
  OBVIOUS
<1> HIDE DEF size, r, len
<1>5. Given(arena, size, a, place, at)
  BY <1>1, <1>2, AllocateGives DEF MemoryOK, r
<1>6. /\ MemoryOK(a, vectors, strings, shrunk)
      /\ ListsOf(a, vectors) = AllLists
      /\ TextsOf(a, strings) = AllTexts
      /\ b \in BlockType /\ InArena(a, b)
      /\ \A v \in Living(vectors) : Clear(vectors[v], b)
      /\ \A k \in DOMAIN strings : Apart(strings[k], b)
  BY <1>1, <1>2, <1>5, GivenKeeps DEF AllLists, AllTexts
<1>7. place \in Nat /\ at \in Nat /\ ArenaOK(a) /\ b.at = at /\ b.size = size /\ b.chunk = place
  BY <1>5 DEF Given
<1>8. n \in Nat /\ old \in [0 .. n - 1 -> Nat] /\ at + size <= n
  <2> DEFINE p == a.chunks[place].occupied
  <2>1. place \in DOMAIN a.chunks /\ at + size <= p
    BY <1>6 DEF InArena
  <2>2. IsChunk(a.chunks[place])
    BY <1>7, <2>1 DEF ArenaOK
  <2>3. n \in Nat /\ old \in [0 .. n - 1 -> Nat] /\ p \in 0 .. n
    BY <2>2 DEF IsChunk
  <2> HIDE DEF n, old, p
  <2>4. QED
    BY <1>2, <1>7, <2>1, <2>3
<1> HIDE DEF a, place, at, b, n, old
<1>9. \A k \in 0 .. n - 1 : data[k] = IF k \in at .. at + len - 1 THEN text[k - at + 1] ELSE old[k]
  <2>1. DOMAIN old = 0 .. n - 1
    BY <1>8
  <2>2. QED
    BY <2>1 DEF WithText, len
<1>10. data \in [0 .. n - 1 -> Nat]
  <2>1. DOMAIN old = 0 .. n - 1
    BY <1>8
  <2>2. data = [k \in 0 .. n - 1 |-> data[k]]
    BY <2>1 DEF WithText
  <2>3. \A k \in 0 .. n - 1 : k \in at .. at + len - 1 => k - at + 1 \in 1 .. len
    BY <1>2, <1>7, <1>8 DEF len
  <2>4. \A k \in 1 .. len : text[k] \in Nat
    BY <1>2 DEF len
  <2> HIDE DEF data
  <2>5. \A k \in 0 .. n - 1 : data[k] \in Nat
    BY <1>8, <1>9, <2>3, <2>4
  <2>6. QED
    BY <2>2, <2>5
<1> HIDE DEF data
<1>11. WritesOnly(a, b, data)
  <2>1. \A k \in 0 .. n - 1 : k \notin at .. at + size - 1 => k \notin at .. at + len - 1
    BY <1>2, <1>4, <1>7, <1>8 DEF len
  <2>2. QED
    BY <1>7, <1>9, <1>10, <2>1 DEF WritesOnly, n, old
<1>12. /\ ArenaOK(after)
       /\ \A c : InArena(a, c) => InArena(after, c)
       /\ \A c \in BlockType : InArena(a, c) /\ Apart(c, b) => Same(a, after, c)
       /\ \A k : Load(after, b.chunk, k) = data[k]
  BY <1>6, <1>7, <1>11, WriteKeeps
<1> HIDE DEF after
<1>13. /\ \A v \in Living(vectors) \ touched : Same(a, after, DataBlock(vectors[v]))
       /\ \A k \in DOMAIN strings : Same(a, after, strings[k])
  <2>1. \A v \in Living(vectors) : /\ DataBlock(vectors[v]) \in BlockType
                                   /\ InArena(a, DataBlock(vectors[v]))
                                   /\ Apart(DataBlock(vectors[v]), b)
    BY <1>6, BlocksTyped DEF MemoryOK, VectorIn, Clear
  <2>2. \A k \in DOMAIN strings : /\ strings[k] \in BlockType /\ InArena(a, strings[k])
                                  /\ Apart(strings[k], b)
    BY <1>6 DEF MemoryOK
  <2>3. QED
    BY <1>12, <2>1, <2>2
<1>14. touched \in SUBSET Vectors /\ shrunk \cup touched = shrunk /\ Vectors \ touched = Vectors
  OBVIOUS
<1> HIDE DEF touched
<1>15. /\ MemoryOK(after, vectors, strings, shrunk \cup touched)
       /\ \A v \in Vectors \ touched : ListsOf(after, vectors)[v] = ListsOf(a, vectors)[v]
       /\ TextsOf(after, strings) = TextsOf(a, strings)
  BY <1>6, <1>12, <1>13, <1>14, Kept
<1>16. ListsOf(after, vectors) = AllLists /\ MemoryOK(after, vectors, strings, shrunk)
  BY <1>6, <1>14, <1>15 DEF ListsOf
<1>17. InArena(after, b)
  BY <1>6, <1>12
<1>18. /\ MemoryOK(after, vectors, Append(strings, b), shrunk)
       /\ TextsOf(after, Append(strings, b)) = Append(TextsOf(after, strings), TextOf(after, b))
  BY <1>6, <1>16, <1>17, TextAdded
<1>19. TextOf(after, b) = text
  <2>1. b.size - 1 = len
    BY <1>2, <1>4, <1>7 DEF len
  <2>2. ASSUME NEW j \in 1 .. len
        PROVE  Load(after, b.chunk, b.at + j - 1) = text[j]
    <3> DEFINE k == at + j - 1
    <3>1. k \in 0 .. n - 1 /\ k \in at .. at + len - 1 /\ k - at + 1 = j
      BY <1>2, <1>4, <1>7, <1>8 DEF len
    <3>2. b.at + j - 1 = k
      BY <1>7
    <3> HIDE DEF k
    <3>3. data[k] = text[k - at + 1]
      BY <1>9, <3>1
    <3>4. QED
      BY <1>12, <3>1, <3>2, <3>3
  <2>3. TextOf(after, b) = [j \in 1 .. len |-> text[j]]
    BY <2>1, <2>2 DEF TextOf
  <2>4. text = [j \in 1 .. len |-> text[j]]
    BY <1>2 DEF len
  <2>5. QED
    BY <2>3, <2>4
<1>20. IInv'
  BY <1>3, <1>18, StateOfMemory
<1>21. AllLists' = AllLists /\ AllTexts' = Append(AllTexts, text)
  BY <1>3, <1>6, <1>15, <1>16, <1>18, <1>19 DEF AllLists, AllTexts
<1>22. QED
  BY <1>20, <1>21 DEF TextIsAdded

\* No vector and no text.
LEMMA NothingThere ==
    ASSUME NEW a, ArenaOK(a)
    PROVE  /\ MemoryOK(a, [v \in Vectors |-> None], << >>, {})
           /\ ListsOf(a, [v \in Vectors |-> None]) = [v \in Vectors |-> None]
           /\ TextsOf(a, << >>) = << >>
<1> DEFINE vs == [v \in Vectors |-> None]
           strs == << >>
           t == TextsOf(a, strs)
<1>1. strs \in Seq(BlockType) /\ DOMAIN strs = 1 .. 0
  BY EmptySeq
<1>2. Living(vs) = {} /\ vs \in [Vectors -> VectorRecords \cup {None}]
  BY DEF Living
<1>3. ListsOf(a, vs) = vs
  BY DEF ListsOf
<1> HIDE DEF vs, strs
<1>4. MemoryOK(a, vs, strs, {})
  BY <1>1, <1>2 DEF MemoryOK
<1>5. t = << >>
  <2>1. t \in [1 .. 0 -> Nat]
    BY <1>1 DEF TextsOf
  <2> HIDE DEF t
  <2>2. t \in Seq(Nat)
    BY <2>1, SeqDef
  <2>3. Len(t) = 0
    BY <2>1, <2>2, LenProperties
  <2>4. QED
    BY <2>2, <2>3, EmptySeq
<1>6. QED
  BY <1>3, <1>4, <1>5 DEF vs, strs

LEMMA InitHolds ==
    ASSUME Init
    PROVE  IInv /\ AllLists = [v \in Vectors |-> None] /\ AllTexts = << >>
<1>1. ArenaOK(Empty)
  <2> DEFINE none == << >>
  <2>1. none \in Seq(ChunkSet) /\ Len(none) = 0
    <3>1. none \in Seq(ChunkSet)
      BY EmptySeq
    <3>2. Len(none) = 0
      BY EmptySeq
    <3>3. QED
      BY <3>1, <3>2
  <2> HIDE DEF none
  <2>2. Empty = [chunks |-> none, current |-> 0]
    BY DEF Empty, none
  <2>3. /\ Empty = [chunks |-> Empty.chunks, current |-> Empty.current]
        /\ Empty.chunks \in Seq(ChunkSet)
        /\ Empty.current \in 0 .. Len(Empty.chunks)
    BY <2>1, <2>2
  <2>4. QED
    BY <2>3, ArenaType
<1>2. /\ arena = Empty /\ vectors = [v \in Vectors |-> None] /\ strings = << >> /\ shrunk = {}
  BY DEF Init
<1>3. MemoryOK(arena, vectors, strings, shrunk)
  BY <1>1, <1>2, NothingThere
<1>4. QED
  BY <1>1, <1>2, <1>3, NothingThere, MemoryInvariant DEF AllLists, AllTexts

LEMMA ResetStep ==
    ASSUME IInv, ResetArena
    PROVE  IInv' /\ AllLists' = [v \in Vectors |-> None] /\ AllTexts' = << >>
<1> DEFINE a == Reset(arena)
           chunks == [k \in DOMAIN arena.chunks |-> [arena.chunks[k] EXCEPT !.occupied = 0]]
           current == IF arena.chunks = << >> THEN 0 ELSE 1
           n == Len(arena.chunks)
<1>1. /\ arena' = a /\ vectors' = [v \in Vectors |-> None] /\ strings' = << >> /\ shrunk' = {}
  BY DEF ResetArena
<1>2. ArenaOK(arena)
  BY StateOfMemory DEF MemoryOK
<1>3. arena.chunks \in Seq(ChunkSet) /\ n \in Nat /\ DOMAIN arena.chunks = 1 .. n
  BY <1>2, ArenaType
<1>4. ASSUME NEW k \in 1 .. n
      PROVE  [arena.chunks[k] EXCEPT !.occupied = 0] \in ChunkSet
  <2> DEFINE c == arena.chunks[k]
             d == [c EXCEPT !.occupied = 0]
  <2>1. IsChunk(c)
    BY <1>2, <1>3 DEF ArenaOK
  <2>2. d = [capacity |-> c.capacity, occupied |-> 0, data |-> c.data]
    BY <2>1 DEF IsChunk
  <2> HIDE DEF d
  <2>3. IsChunk(d)
    BY <2>1, <2>2 DEF IsChunk
  <2>4. d \in ChunkSet
    BY <2>3, ChunkInSet
  <2>5. QED
    BY <2>4 DEF d
<1>5. chunks \in [1 .. n -> ChunkSet]
  BY <1>3, <1>4
<1>6. current \in 0 .. n
  <2>1. arena.chunks # << >> => n # 0
    BY <1>3, EmptySeq
  <2>2. QED
    BY <1>3, <2>1
<1>7. a = [chunks |-> chunks, current |-> current]
  BY DEF Reset
<1> HIDE DEF a, chunks, current
<1>8. chunks \in Seq(ChunkSet)
  BY <1>3, <1>5, SeqDef
<1>9. Len(chunks) = n
  BY <1>3, <1>5, <1>8, LenProperties
<1>10. ArenaOK(a)
  BY <1>6, <1>7, <1>8, <1>9, ArenaType
<1>11. QED
  BY <1>1, <1>10, NothingThere, StateOfMemory DEF AllLists, AllTexts

-----------------------------------------------------------------------------
(* The theorems.                                                           *)

\* The lists that live vectors hold, and their counts.
LEMMA ListOfLiving ==
    ASSUME IInv, NEW v \in Vectors
    PROVE  /\ Alive(v) <=> v \in Living(vectors)
           /\ Alive(v) => /\ AllLists[v] \in Seq(Nat) /\ AllLists[v] # None
                          /\ Len(AllLists[v]) = vectors[v].count
                          /\ vectors[v].count \in Nat
           /\ ~Alive(v) => AllLists[v] = None
<1>1. MemoryOK(arena, vectors, strings, shrunk)
  BY StateOfMemory
<1>2. Alive(v) <=> v \in Living(vectors)
  BY DEF Alive, Living
<1>3. AllLists[v] = IF Alive(v) THEN CellsOf(arena, vectors[v]) ELSE None
  BY DEF AllLists, ListsOf, Alive
<1>4. ASSUME Alive(v)
      PROVE  /\ CellsOf(arena, vectors[v]) \in Seq(Nat)
             /\ Len(CellsOf(arena, vectors[v])) = vectors[v].count
             /\ vectors[v].count \in Nat
  <2>1. VectorIn(arena, vectors[v]) /\ ArenaOK(arena)
    BY <1>1, <1>2, <1>4 DEF MemoryOK
  <2>2. QED
    BY <2>1, CellsFacts, BlocksTyped DEF VectorIn
<1>5. QED
  BY <1>2, <1>3, <1>4, NoneAssumption

\* What every step does to the lists and the texts.
ListsStep ==
    \/ \E v \in Vectors :
           \/ AllLists[v] = None /\ ListBecomes(v, << >>)
           \/ /\ AllLists[v] # None
              /\ \/ \E value \in Values : ListBecomes(v, Append(AllLists[v], value))
                 \/ \E k \in DOMAIN AllLists[v] : ListBecomes(v, Without(AllLists[v], k))
                 \/ AllLists[v] # << >> /\ ListBecomes(v, SubSeq(AllLists[v], 1, Len(AllLists[v]) - 1))
                 \/ ListBecomes(v, << >>)
    \/ \E text \in Strings : TextIsAdded(text)
    \/ IInv' /\ AllLists' = [v \in Vectors |-> None] /\ AllTexts' = << >>

LEMMA EveryStep ==
    ASSUME IInv, Next
    PROVE  ListsStep
<1> USE DEF ListsStep
<1>1. ASSUME NEW v \in Vectors, NEW capacity \in Capacities, CreateVector(v, capacity)
      PROVE  ListsStep
  <2>1. AllLists[v] = None
    BY <1>1, ListOfLiving DEF CreateVector
  <2>2. QED
    BY <1>1, <2>1, CreateStep
<1>2. ASSUME NEW v \in Vectors, NEW value \in Values, Add(v, value)
      PROVE  ListsStep
  <2>1. AllLists[v] # None /\ v \in Living(vectors)
    BY <1>2, ListOfLiving DEF Add
  <2>2. QED
    BY <1>2, <2>1, AddStep
<1>3. ASSUME NEW v \in Vectors, NEW index \in 0 .. MaxCount - 1, RemoveElement(v, index)
      PROVE  ListsStep
  <2>1. /\ AllLists[v] # None /\ v \in Living(vectors) /\ index \in Nat
        /\ AllLists[v] \in Seq(Nat)
        /\ Len(AllLists[v]) = vectors[v].count /\ vectors[v].count \in Nat
        /\ index < vectors[v].count
    BY <1>3, ListOfLiving, VectorAssumption DEF RemoveElement
  <2>2. index + 1 \in DOMAIN AllLists[v]
    BY <2>1
  <2>3. ListBecomes(v, Without(AllLists[v], index + 1))
    BY <1>3, <2>1, RemoveStep
  <2>4. QED
    BY <2>1, <2>2, <2>3
<1>4. ASSUME NEW v \in Vectors, PopElement(v)
      PROVE  ListsStep
  <2> DEFINE n == vectors[v].count - 1
  <2>1. /\ AllLists[v] # None /\ v \in Living(vectors)
        /\ AllLists[v] \in Seq(Nat)
        /\ Len(AllLists[v]) = vectors[v].count /\ vectors[v].count \in Nat
        /\ vectors[v].count > 0
    BY <1>4, ListOfLiving DEF PopElement
  <2>2. n \in 0 .. vectors[v].count /\ n = Len(AllLists[v]) - 1
    BY <2>1
  <2>3. AllLists[v] # << >>
    BY <2>1, EmptySeq
  <2>4. /\ vectors' = [vectors EXCEPT ![v].count = n] /\ shrunk' = shrunk \cup {v}
        /\ UNCHANGED <<arena, strings>>
    BY <1>4 DEF PopElement
  <2> HIDE DEF n
  <2>5. ListBecomes(v, SubSeq(AllLists[v], 1, n))
    BY <2>1, <2>2, <2>4, ShrinkStep
  <2>6. QED
    BY <2>1, <2>2, <2>3, <2>5
<1>5. ASSUME NEW v \in Vectors, ResetVector(v)
      PROVE  ListsStep
  <2> DEFINE n == 0
  <2>1. /\ AllLists[v] # None /\ v \in Living(vectors) /\ vectors[v].count \in Nat
    BY <1>5, ListOfLiving DEF ResetVector
  <2>2. /\ vectors' = [vectors EXCEPT ![v].count = n] /\ shrunk' = shrunk \cup {v}
        /\ UNCHANGED <<arena, strings>>
    BY <1>5 DEF ResetVector
  <2>3. n \in 0 .. vectors[v].count /\ n \in Int /\ 1 \in Int /\ n < 1
    BY <2>1
  <2> HIDE DEF n
  <2>4. ListBecomes(v, SubSeq(AllLists[v], 1, n))
    BY <2>1, <2>2, <2>3, ShrinkStep
  <2>5. SubSeq(AllLists[v], 1, n) = << >>
    BY <2>3, SubSeqEmpty
  <2>6. QED
    BY <2>1, <2>4, <2>5
<1>6. ASSUME NEW text \in Strings, Strdup(text)
      PROVE  ListsStep
  BY <1>6, StrdupStep
<1>7. ASSUME ResetArena
      PROVE  ListsStep
  BY <1>7, ResetStep
<1>8. QED
  BY <1>1, <1>2, <1>3, <1>4, <1>5, <1>6, <1>7 DEF Next, Step

LEMMA StepKeepsIInv == IInv /\ [Next]_vars => IInv'
<1>1. ASSUME IInv, Next
      PROVE  IInv'
  BY <1>1, EveryStep DEF ListsStep, ListBecomes, TextIsAdded
<1>2. ASSUME IInv, UNCHANGED vars
      PROVE  IInv'
  <2>1. MemoryOK(arena', vectors', strings', shrunk')
    BY <1>2, StateOfMemory DEF vars
  <2>2. QED
    BY <2>1, StateOfMemory
<1>3. QED
  BY <1>1, <1>2

LEMMA IInvHolds == Spec => []IInv
<1>1. Init => IInv
  BY InitHolds
<1>2. QED
  BY <1>1, StepKeepsIInv, PTL DEF Spec

\* Chunks, blocks and records are what the code's structs can hold.
THEOREM TypeCorrect == Spec => []TypeOK
BY IInvHolds, PTL DEF IInv

\* Blocks in use are inside their chunks, aligned, and do not overlap.
THEOREM BlocksAreApart == Spec => []BlocksApart
<1>1. IInv => BlocksApart
  <2> SUFFICES ASSUME IInv PROVE BlocksApart
    OBVIOUS
  <2>1. ASSUME NEW o \in Owners
        PROVE  LET b == Block(o)
               IN  /\ b.at + b.size <= arena.chunks[b.chunk].occupied
                   /\ arena.chunks[b.chunk].occupied <= arena.chunks[b.chunk].capacity
                   /\ (Base + b.at) % Align = 0
    <3> DEFINE b == Block(o)
    <3>1. InArena(arena, b)
      BY DEF IInv, BlocksFit
    <3> HIDE DEF b
    <3>2. IsChunk(arena.chunks[b.chunk])
      BY <3>1 DEF IInv, TypeOK, ArenaOK, InArena
    <3>3. arena.chunks[b.chunk].occupied <= arena.chunks[b.chunk].capacity
      BY <3>2 DEF IsChunk
    <3>4. QED
      BY <3>1, <3>3 DEF InArena, b
  <2>2. QED
    BY <2>1 DEF BlocksApart, IInv, BlocksDisjoint
<1>2. QED
  BY <1>1, IInvHolds, PTL

\* The slot behind the last element is there, and zero while a vector only grew
\* or lost elements one by one.
THEOREM SpareSlot == Spec => []SpareSlotIsZero
<1>1. IInv => SpareSlotIsZero
  <2> SUFFICES ASSUME IInv, NEW v \in Vectors, Alive(v)
               PROVE  /\ vectors[v].count < vectors[v].capacity
                      /\ v \notin shrunk =>
                            Load(arena, vectors[v].chunk, vectors[v].at + vectors[v].count) = 0
    BY DEF SpareSlotIsZero
  <2>1. vectors[v].count \in Nat /\ vectors[v].capacity \in Nat
    BY DEF IInv, TypeOK, Alive, VectorRecords
  <2>2. vectors[v].count < vectors[v].capacity
    BY DEF IInv, RoomForOneMore
  <2>3. vectors[v].count \in vectors[v].count .. vectors[v].capacity - 1
    BY <2>1, <2>2
  <2>4. QED
    BY <2>2, <2>3 DEF IInv, UnusedIsZero
<1>2. QED
  BY <1>1, IInvHolds, PTL

\* Every operation on memory is one on sequences: vectors and copied strings are
\* lists and texts of their own.
THEOREM VectorsAreLists == Spec => ImplementsLists
<1> DEFINE lists == [v \in Vectors |-> IF Alive(v) THEN Cells(vectors[v].chunk, vectors[v].at, vectors[v].count)
                                       ELSE None]
           texts == [k \in DOMAIN strings |-> Cells(strings[k].chunk, strings[k].at, strings[k].size - 1)]
<1>1. lists = AllLists /\ texts = AllTexts
  BY DEF AllLists, AllTexts, ListsOf, TextsOf, Cells, CellsOf, Alive
<1>2. lists' = AllLists' /\ texts' = AllTexts'
  BY DEF AllLists, AllTexts, ListsOf, TextsOf, Cells, CellsOf, Alive
<1>3. Init => Abstract!ListsInit
  <2> SUFFICES ASSUME Init PROVE Abstract!ListsInit
    OBVIOUS
  <2>1. lists = [v \in Vectors |-> None] /\ texts = << >>
    BY <1>1, InitHolds
  <2>2. QED
    BY <2>1 DEF Abstract!ListsInit
<1>4. ASSUME IInv, Next
      PROVE  Abstract!ListsNext
  <2>1. ASSUME NEW v \in Vectors, AllLists[v] = None, ListBecomes(v, << >>)
        PROVE  Abstract!Make(v)
    <3>1. lists[v] = None /\ lists' = [lists EXCEPT ![v] = << >>] /\ texts' = texts
      BY <1>1, <1>2, <2>1 DEF ListBecomes
    <3>2. QED
      BY <3>1 DEF Abstract!Make, Abstract!Change
  <2>2. ASSUME NEW v \in Vectors, AllLists[v] # None, NEW value \in Values,
               ListBecomes(v, Append(AllLists[v], value))
        PROVE  Abstract!Extend(v, value)
    <3>1. lists[v] # None /\ lists' = [lists EXCEPT ![v] = Append(lists[v], value)] /\ texts' = texts
      BY <1>1, <1>2, <2>2 DEF ListBecomes
    <3>2. QED
      BY <3>1 DEF Abstract!Extend, Abstract!Change
  <2>3. ASSUME NEW v \in Vectors, AllLists[v] # None, NEW k \in DOMAIN AllLists[v],
               ListBecomes(v, Without(AllLists[v], k))
        PROVE  /\ lists[v] # None /\ k \in DOMAIN lists[v]
               /\ Abstract!Drop(v, k)
    <3>1. /\ lists[v] # None /\ k \in DOMAIN lists[v]
          /\ lists' = [lists EXCEPT ![v] = SubSeq(lists[v], 1, k - 1)
                                           \o SubSeq(lists[v], k + 1, Len(lists[v]))]
          /\ texts' = texts
      BY <1>1, <1>2, <2>3 DEF ListBecomes, Without
    <3>2. QED
      BY <3>1 DEF Abstract!Drop, Abstract!Change, Abstract!RemoveAt
  <2>4. ASSUME NEW v \in Vectors, AllLists[v] # None, AllLists[v] # << >>,
               ListBecomes(v, SubSeq(AllLists[v], 1, Len(AllLists[v]) - 1))
        PROVE  Abstract!Pop(v)
    <3>1. /\ lists[v] # None /\ lists[v] # << >>
          /\ lists' = [lists EXCEPT ![v] = SubSeq(lists[v], 1, Len(lists[v]) - 1)]
          /\ texts' = texts
      BY <1>1, <1>2, <2>4 DEF ListBecomes
    <3>2. QED
      BY <3>1 DEF Abstract!Pop, Abstract!Change, Abstract!Front
  <2>5. ASSUME NEW v \in Vectors, AllLists[v] # None, ListBecomes(v, << >>)
        PROVE  Abstract!Clear(v)
    <3>1. lists[v] # None /\ lists' = [lists EXCEPT ![v] = << >>] /\ texts' = texts
      BY <1>1, <1>2, <2>5 DEF ListBecomes
    <3>2. QED
      BY <3>1 DEF Abstract!Clear, Abstract!Change
  <2>6. ASSUME NEW text \in Strings, TextIsAdded(text)
        PROVE  Abstract!Copy(text)
    <3>1. texts' = Append(texts, text) /\ lists' = lists
      BY <1>1, <1>2, <2>6 DEF TextIsAdded
    <3>2. QED
      BY <3>1 DEF Abstract!Copy
  <2>7. ASSUME AllLists' = [v \in Vectors |-> None], AllTexts' = << >>
        PROVE  Abstract!Forget
    <3>1. lists' = [v \in Vectors |-> None] /\ texts' = << >>
      BY <1>2, <2>7
    <3>2. QED
      BY <3>1 DEF Abstract!Forget
  <2>8. ListsStep
    BY <1>4, EveryStep
  <2> HIDE DEF lists, texts
  <2>9. QED
    BY <2>1, <2>2, <2>3, <2>4, <2>5, <2>6, <2>7, <2>8 DEF ListsStep, Abstract!ListsNext, lists
<1>5. ASSUME UNCHANGED vars
      PROVE  UNCHANGED Abstract!listsVars
  BY <1>5 DEF vars, Abstract!listsVars, Alive, Cells
<1>6. IInv /\ [Next]_vars => [Abstract!ListsNext]_(Abstract!listsVars)
  BY <1>4, <1>5
<1>7. QED
  BY <1>3, <1>6, IInvHolds, PTL DEF Spec, ImplementsLists, Abstract!ListsSpec
=============================================================================
