------------------------------- MODULE Vector -------------------------------
(***************************************************************************)
(* Growable vectors (h_vector.c) and copied strings (arena_strdup), several*)
(* in one arena.  A vector that grows moves: its elements are copied to a  *)
(* new place and the old one is left behind.                               *)
(*                                                                         *)
(* An element and a character take one cell, struct vector_t takes         *)
(* HeaderSize cells.  vector_add checks for an arena to be there, and      *)
(* always finds one: vector_create_vector needs it.  Of an empty vector    *)
(* vector_pop would make the count wrap; its one caller looks first.       *)
(***************************************************************************)
EXTENDS Arena

CONSTANTS
    Vectors,
    Values,         \* elements and characters; none of them is zero
    None,
    Capacities,     \* what vectors are made with
    HeaderSize,
    Strings,        \* what is copied
    MaxCount,       \* bound on the elements of a vector
    MaxTexts,       \* bound on the copied strings
    MaxChunks       \* bound on the chunks of the arena

ASSUME VectorAssumption ==
    /\ Values \subseteq Nat \ {0}
    /\ Capacities \subseteq Nat \ {0}
    /\ HeaderSize \in Nat \ {0}
    /\ Strings \subseteq Seq(Values)
    /\ MaxCount \in Nat

Places == [chunk : Nat, at : Nat]

VectorRecords == [header : Places, chunk : Nat, at : Nat, capacity : Nat, count : Nat]

(* No vector is None, and no sequence.                                     *)
ASSUME NoneAssumption == None \notin VectorRecords \cup Seq(Nat)

VARIABLES
    arena,
    vectors,        \* vector |-> a record of VectorRecords or None
    strings,        \* the copies, in order: [chunk, at, size]
    shrunk          \* vectors that were popped or reset

vars == <<arena, vectors, strings, shrunk>>

-----------------------------------------------------------------------------
Init ==
    /\ arena = Empty
    /\ vectors = [v \in Vectors |-> None]
    /\ strings = <<>>
    /\ shrunk = {}

Alive(v) == vectors[v] # None

CreateVector(v, capacity) ==
    /\ ~Alive(v)
    /\ \E header \in {Allocate(arena, HeaderSize)} :
       \E data \in {Allocate(header.arena, capacity)} :
           /\ arena' = data.arena
           /\ vectors' = [vectors EXCEPT ![v] =
                             [header |-> [chunk |-> header.chunk, at |-> header.at],
                              chunk |-> data.chunk, at |-> data.at,
                              capacity |-> capacity, count |-> 0]]
    /\ UNCHANGED <<strings, shrunk>>

(* memcpy of "size" cells.                                                 *)
Copied(a, from, to, size) ==
    [a EXCEPT !.chunks[to.chunk].data =
        [k \in DOMAIN @ |-> IF k \in to.at .. to.at + size - 1
                            THEN Load(a, from.chunk, from.at + k - to.at) ELSE @[k]]]

(* Faulty: the elements stay where they were.                              *)
GrownEmpty(vector) ==
    LET place == Allocate(arena, 2 * vector.capacity)
    IN  [ arena |-> place.arena,
          vector |-> [vector EXCEPT !.chunk = place.chunk, !.at = place.at,
                                    !.capacity = 2 * vector.capacity] ]

(* The arena and the vector once there is room for one more.               *)
Grown(vector) ==
    LET place == Allocate(arena, 2 * vector.capacity)
    IN  [ arena |-> Copied(place.arena, vector, place, vector.capacity),
          vector |-> [vector EXCEPT !.chunk = place.chunk, !.at = place.at,
                                    !.capacity = 2 * vector.capacity] ]

(* Faulty: a vector grows only when the new element does not fit.          *)
NeedsRoomTight(vector) == vector.count + 1 > vector.capacity
NeedsRoom(vector) == vector.count + 1 >= vector.capacity

Add(v, value) ==
    /\ Alive(v)
    /\ vectors[v].count < MaxCount
    /\ \E room \in {IF NeedsRoom(vectors[v]) THEN Grown(vectors[v])
                    ELSE [arena |-> arena, vector |-> vectors[v]]} :
           /\ arena' = Store(room.arena, room.vector.chunk,
                             room.vector.at + room.vector.count, value)
           /\ vectors' = [vectors EXCEPT ![v] = [room.vector EXCEPT !.count = @ + 1]]
    /\ UNCHANGED <<strings, shrunk>>

(* Every element behind the removed one moves down and the last slot is    *)
(* cleared.                                                                *)
MovedDown(data, vector, index) ==
    LET last == vector.at + vector.count - 1
    IN  [k \in DOMAIN data |-> IF k = last THEN 0
                               ELSE IF k \in vector.at + index .. last - 1 THEN data[k + 1]
                               ELSE data[k]]

RemoveElement(v, index) ==
    /\ Alive(v)
    /\ index < vectors[v].count
    /\ arena' = [arena EXCEPT !.chunks[vectors[v].chunk].data = MovedDown(@, vectors[v], index)]
    /\ vectors' = [vectors EXCEPT ![v].count = @ - 1]
    /\ UNCHANGED <<strings, shrunk>>

PopElement(v) ==
    /\ Alive(v)
    /\ vectors[v].count > 0
    /\ vectors' = [vectors EXCEPT ![v].count = @ - 1]
    /\ shrunk' = shrunk \cup {v}
    /\ UNCHANGED <<arena, strings>>

ResetVector(v) ==
    /\ Alive(v)
    /\ vectors' = [vectors EXCEPT ![v].count = 0]
    /\ shrunk' = shrunk \cup {v}
    /\ UNCHANGED <<arena, strings>>

(* arena_strdup: the characters and the zero behind them.                  *)
Strdup(text) ==
    /\ Len(strings) < MaxTexts
    /\ \E place \in {Allocate(arena, Len(text) + 1)} :
           /\ arena' = [place.arena EXCEPT !.chunks[place.chunk].data =
                           [k \in DOMAIN @ |-> IF k \in place.at .. place.at + Len(text) - 1
                                               THEN text[k - place.at + 1] ELSE @[k]]]
           /\ strings' = Append(strings, [chunk |-> place.chunk, at |-> place.at,
                                          size |-> Len(text) + 1])
    /\ UNCHANGED <<vectors, shrunk>>

(* arena_reset, by whoever is done with all that is in the arena.          *)
ResetArena ==
    /\ arena' = Reset(arena)
    /\ vectors' = [v \in Vectors |-> None]
    /\ strings' = <<>>
    /\ shrunk' = {}

Step ==
    \/ \E v \in Vectors :
           \/ \E capacity \in Capacities : CreateVector(v, capacity)
           \/ \E value \in Values : Add(v, value)
           \/ \E index \in 0 .. MaxCount - 1 : RemoveElement(v, index)
           \/ PopElement(v)
           \/ ResetVector(v)
    \/ \E text \in Strings : Strdup(text)
    \/ ResetArena

Next == Step /\ Len(arena'.chunks) <= MaxChunks

Spec == Init /\ [][Next]_vars

-----------------------------------------------------------------------------
(***************************************************************************)
(* The sequences the memory holds.                                         *)
(***************************************************************************)
Cells(chunk, at, size) == [k \in 1 .. size |-> Load(arena, chunk, at + k - 1)]

Abstract == INSTANCE Lists WITH
    lists <- [v \in Vectors |-> IF Alive(v) THEN Cells(vectors[v].chunk, vectors[v].at, vectors[v].count)
                                ELSE None],
    texts <- [k \in DOMAIN strings |-> Cells(strings[k].chunk, strings[k].at, strings[k].size - 1)]

(* However vectors grow, move and shrink among each other and among copied *)
(* strings, in fresh memory and in memory that was used before a reset,    *)
(* each of them is its own sequence: every operation is the operation on   *)
(* that sequence and changes no other.                                     *)
ImplementsLists == Abstract!ListsSpec

(* No block that is in use lies over another, beyond its chunk or at an    *)
(* unaligned address, also where a chunk is too small for the next block   *)
(* but not full.                                                           *)
Owners == ({"header", "data"} \X {v \in Vectors : Alive(v)}) \cup ({"text"} \X DOMAIN strings)

Block(owner) ==
    LET of == owner[2]
    IN  CASE owner[1] = "header" -> [chunk |-> vectors[of].header.chunk,
                                     at |-> vectors[of].header.at, size |-> HeaderSize]
          [] owner[1] = "data" -> [chunk |-> vectors[of].chunk, at |-> vectors[of].at,
                                   size |-> vectors[of].capacity]
          [] owner[1] = "text" -> strings[of]

Apart(b, c) == b.chunk = c.chunk => b.at + b.size <= c.at \/ c.at + c.size <= b.at

BlocksApart ==
    /\ \A o \in Owners : LET b == Block(o)
                         IN  /\ b.at + b.size <= arena.chunks[b.chunk].occupied
                             /\ arena.chunks[b.chunk].occupied <= arena.chunks[b.chunk].capacity
                             /\ (Base + b.at) % Align = 0
    /\ \A o, p \in Owners : o # p => Apart(Block(o), Block(p))

(* Behind the last element of a vector there is always one more slot, and  *)
(* it is zero as long as elements were only added and removed: parser and  *)
(* preprocessor read their token vectors one past the end and take what is *)
(* there for the end of the file.                                          *)
SpareSlotIsZero ==
    \A v \in Vectors : Alive(v) =>
        /\ vectors[v].count < vectors[v].capacity
        /\ v \notin shrunk => Load(arena, vectors[v].chunk, vectors[v].at + vectors[v].count) = 0

-----------------------------------------------------------------------------
(* The inductive invariant behind these properties.                        *)
IsChunk(chunk) ==
    /\ chunk = [capacity |-> chunk.capacity, occupied |-> chunk.occupied, data |-> chunk.data]
    /\ chunk.capacity \in Nat
    /\ chunk.occupied \in 0 .. chunk.capacity
    /\ chunk.data \in [0 .. chunk.capacity - 1 -> Nat]

ArenaOK(a) ==
    /\ a = [chunks |-> a.chunks, current |-> a.current]
    /\ a.chunks \in Seq({a.chunks[k] : k \in DOMAIN a.chunks})
    /\ \A k \in DOMAIN a.chunks : IsChunk(a.chunks[k])
    /\ a.current \in 0 .. Len(a.chunks)

TypeOK ==
    /\ ArenaOK(arena)
    /\ vectors \in [Vectors -> VectorRecords \cup {None}]
    /\ strings \in Seq([chunk : Nat, at : Nat, size : Nat \ {0}])
    /\ shrunk \subseteq Vectors

(* A block is in a chunk of the arena, occupied and aligned.               *)
InArena(a, b) ==
    /\ b.chunk \in DOMAIN a.chunks
    /\ b.at + b.size <= a.chunks[b.chunk].occupied
    /\ (Base + b.at) % Align = 0

BlocksFit == \A o \in Owners : InArena(arena, Block(o))

BlocksDisjoint == \A o, p \in Owners : o # p => Apart(Block(o), Block(p))

RoomForOneMore == \A v \in Vectors : Alive(v) => vectors[v].count < vectors[v].capacity

(* Not only the next slot is zero, all that are left are.                  *)
UnusedIsZero ==
    \A v \in Vectors : Alive(v) /\ v \notin shrunk =>
        \A k \in vectors[v].count .. vectors[v].capacity - 1 :
            Load(arena, vectors[v].chunk, vectors[v].at + k) = 0

IInv == TypeOK /\ BlocksFit /\ BlocksDisjoint /\ RoomForOneMore /\ UnusedIsZero
=============================================================================
