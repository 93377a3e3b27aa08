-------------------------------- MODULE Mybuf --------------------------------
(***************************************************************************)
(* uvlib's growing buffer (src/examples/httprelay/uvlib/mybuf.c): an array *)
(* of its own, and a block on the heap once more room is needed.           *)
(*                                                                         *)
(* The bytes behind size are indeterminate, so the NUL that vsnprintf puts *)
(* there, and what it has truncated there before it is called again, are   *)
(* left out; that there is room for it is not.  mybuf_append_hexdump is a  *)
(* series of mybuf_cat_printf, and mybuf_to_string changes nothing.        *)
(***************************************************************************)
EXTENDS Integers, Sequences

CONSTANTS
  DefaultSize,   \* MYBUF_DEFAULT_SIZE
  Byte,
  Junk,          \* an indeterminate byte
  Strings,       \* what is appended
  MaxSize        \* bound on size and on mybuf_reserve

ASSUME SizesAssumption == DefaultSize \in Nat \ {0} /\ MaxSize \in Nat

ASSUME BytesAssumption == Strings \subseteq Seq(Byte) /\ Junk \notin Byte

VARIABLE buf

Cell == Byte \cup {Junk}

Junks(n) == [i \in 0 .. n - 1 |-> Junk]

(* where buf->buf points, the block there, and how many blocks of this     *)
(* buffer are allocated on the heap                                        *)
Buffer(where, mem, size, capacity, blocks) ==
  [where |-> where, mem |-> mem, size |-> size, capacity |-> capacity,
   blocks |-> blocks]

BufferOK(b) ==
  /\ b = Buffer(b.where, b.mem, b.size, b.capacity, b.blocks)
  /\ b.where \in {"own", "heap"}
  /\ b.capacity \in Nat
  /\ b.size \in Nat
  /\ b.blocks \in Nat
  /\ b.mem \in [0 .. b.capacity - 1 -> Cell]

TypeOK == BufferOK(buf)

(* mybuf_init *)
Fresh == Buffer("own", Junks(DefaultSize), 0, DefaultSize, 0)

Init == buf = Fresh

Content(b) == [i \in 1 .. b.size |-> b.mem[i - 1]]

-----------------------------------------------------------------------------
(* mybuf_space *)
Space(b) == b.capacity - b.size

DoubledOnce(b, need) ==   \* mutant: the capacity is doubled once
  IF Space(b) >= need THEN {b.capacity} ELSE {2 * b.capacity}

(* The capacity is doubled until there is room for need more bytes.        *)
Capacities(b, need) ==
  IF Space(b) >= need THEN {b.capacity}
  ELSE {c \in b.capacity + 1 .. 2 * (b.size + need) :
          /\ \E k \in 1 .. need : c = b.capacity * 2 ^ k
          /\ c - b.size >= need
          /\ (c \div 2) - b.size < need}

(* malloc and memcpy of the array, or realloc of the block                 *)
Grown(b, c) ==
  IF c = b.capacity THEN b
  ELSE Buffer("heap", [i \in 0 .. c - 1 |-> IF i < b.size THEN b.mem[i] ELSE Junk],
              b.size, c, IF b.where = "own" THEN b.blocks + 1 ELSE b.blocks)

(* memcpy behind what is there; bytes that do not fit are not in the block *)
Written(b, data) ==
  Buffer(b.where,
         [i \in DOMAIN b.mem |->
            IF i >= b.size /\ i < b.size + Len(data) THEN data[i - b.size + 1]
            ELSE b.mem[i]],
         b.size + Len(data), b.capacity, b.blocks)

(* data written behind what is there, after room was made for need bytes   *)
Puts(b, data, need) == {Written(Grown(b, c), data) : c \in Capacities(b, need)}

(* mybuf_clear: what the array holds after the block was in use is as old  *)
(* as the block                                                            *)
Cleared(b) ==
  Buffer("own", IF b.where = "own" THEN b.mem ELSE Junks(DefaultSize), 0, DefaultSize,
         IF b.where = "own" THEN b.blocks ELSE b.blocks - 1)

-----------------------------------------------------------------------------
Reserve ==
  \E n \in 0 .. MaxSize : buf' \in Puts(buf, <<>>, n)

AppendBytes ==
  \E data \in Strings :
    /\ buf.size + Len(data) <= MaxSize
    /\ buf' \in Puts(buf, data, Len(data))

(* mybuf_cat_printf: when the text and a NUL do not fit, room is made for  *)
(* both and vsnprintf is called again.                                     *)
CatPrintf ==
  \E text \in Strings :
    /\ buf.size + Len(text) <= MaxSize
    /\ buf' \in Puts(buf, text, Len(text) + 1)

Clear == buf' = Cleared(buf)

ClearThenAppend ==   \* mutant: no temporary buffer
  \E i, j \in 0 .. buf.size :
    LET data == [n \in 1 .. j - i |->
                   IF buf.where = "own" THEN buf.mem[n + i - 1] ELSE Junk]
    IN  buf' \in Puts(Cleared(buf), data, Len(data))

(* mybuf_clear_append, with data of the caller's or in the buffer itself:  *)
(* it is copied to a temporary buffer first, which is cleared in the end.  *)
ClearAppend ==
  \E data \in Strings \cup {SubSeq(Content(buf), i + 1, j) : i, j \in 0 .. buf.size} :
    buf' \in Puts(Cleared(buf), data, Len(data))

Next == Reserve \/ AppendBytes \/ CatPrintf \/ Clear \/ ClearAppend

Spec == Init /\ [][Next]_buf

-----------------------------------------------------------------------------
(* Nothing is written outside the block, whatever was appended, reserved   *)
(* and cleared before (mybuf_reserve, mybuf_append, mybuf_cat_vprintf).    *)
SizeFits == buf.size <= buf.capacity

(* The buffer has a block on the heap exactly when it has outgrown its     *)
(* array, and never more than one: none is lost when it grows again, and   *)
(* none is left when it is cleared (mybuf_reserve, mybuf_append,           *)
(* mybuf_clear).                                                           *)
OneBlock ==
  /\ buf.capacity > DefaultSize <=> buf.where = "heap"
  /\ buf.blocks = IF buf.where = "heap" THEN 1 ELSE 0

(* The memory of the buffer is sound after every call of mybuf.c.          *)
BlockSound == SizeFits /\ OneBlock

(* The bytes are those of the string that mybuf.h promises: they survive   *)
(* every move, and mybuf_clear_append is "safe to call me when data in     *)
(* buf" (mybuf.h:52).                                                      *)
Promise == INSTANCE ByteString WITH str <- Content(buf)

ImplementsByteString == Promise!Spec

=============================================================================
