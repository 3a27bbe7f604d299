------------------------------- MODULE Arena -------------------------------
(***************************************************************************)
(* The bump allocator (h_arena.c): a list of chunks that are filled one    *)
(* behind the other and only ever emptied together.                        *)
(*                                                                         *)
(* A chunk is [capacity, occupied, data]; a cell of "data" is the least    *)
(* size that anything asked for has, and the address of a chunk's first    *)
(* cell is Base behind a multiple of Align, as the header in front of it   *)
(* leaves it.  calloc is taken not to fail.                                *)
(***************************************************************************)
EXTENDS Integers, Sequences, FiniteSetsExt

CONSTANTS
    ChunkSize,      \* H_ARENA_CHUNK_SIZE
    Align,          \* _Alignof(max_align_t)
    Base            \* where the data of a chunk starts, modulo Align

ASSUME ArenaAssumption ==
    /\ ChunkSize \in Nat \ {0}
    /\ Align \in Nat \ {0}
    /\ Base \in 0 .. Align - 1

Empty == [chunks |-> <<>>, current |-> 0]

-----------------------------------------------------------------------------
Chunk(size) ==
    LET capacity == Max({size + Align, ChunkSize})
    IN  [capacity |-> capacity, occupied |-> 0, data |-> [k \in 0 .. capacity - 1 |-> 0]]

Up(address) == ((address + Align - 1) \div Align) * Align

(* The first aligned place behind what is occupied, as an offset.          *)
Offset(chunk) == Up(Base + chunk.occupied) - Base
(* Faulty: what is skipped to align is not counted.                        *)
FitsUnaligned(chunk, size) == chunk.occupied + size <= chunk.capacity
Fits(chunk, size) == Offset(chunk) + size <= chunk.capacity

Take(chunk, size) ==
    LET at == Offset(chunk)
    IN  [chunk EXCEPT !.occupied = at + size,
                      !.data = [k \in DOMAIN @ |-> IF k \in at .. at + size - 1 THEN 0 ELSE @[k]]]

(* arena_alloc_align, for a size above zero: the first chunk that has room,*)
(* from the current one on, or else a new one.  Whatever is passed on the  *)
(* way is not come back to.                                                *)
Allocate(arena, size) ==
    LET from == Max({1, arena.current})
        room == {k \in from .. Len(arena.chunks) : Fits(arena.chunks[k], size)}
        chunks == IF room = {} THEN Append(arena.chunks, Chunk(size)) ELSE arena.chunks
        chosen == IF room = {} THEN Len(chunks) ELSE Min(room)
    IN  [ arena |-> [chunks |-> [chunks EXCEPT ![chosen] = Take(@, size)], current |-> chosen],
          chunk |-> chosen, at |-> Offset(chunks[chosen]) ]

Reset(arena) ==
    [ chunks |-> [k \in DOMAIN arena.chunks |-> [arena.chunks[k] EXCEPT !.occupied = 0]],
      current |-> IF arena.chunks = <<>> THEN 0 ELSE 1 ]

Store(arena, chunk, at, value) == [arena EXCEPT !.chunks[chunk].data[at] = value]
Load(arena, chunk, at) == arena.chunks[chunk].data[at]
=============================================================================
