---------------------------- MODULE Mybuf_proofs ----------------------------
(***************************************************************************)
(* Proofs about Mybuf, for every MYBUF_DEFAULT_SIZE and every string.      *)
(***************************************************************************)
EXTENDS Mybuf, SequenceTheorems, TLAPS

(* The invariant: what mybuf.c keeps true of a buffer between calls        *)
Good(b) ==
  /\ BufferOK(b)
  /\ b.size <= b.capacity
  /\ b.capacity >= DefaultSize
  /\ b.capacity > DefaultSize <=> b.where = "heap"
  /\ b.blocks = IF b.where = "heap" THEN 1 ELSE 0

Strs == Seq(Cell)

(* The content is a sequence of size bytes. *)
LEMMA ContentIsASeq ==
  ASSUME NEW b, Good(b)
  PROVE  /\ Content(b) \in Strs
         /\ Len(Content(b)) = b.size
         /\ \A i \in 1 .. b.size : Content(b)[i] = b.mem[i - 1]
<1>1. /\ b.capacity \in Nat /\ b.size \in Nat /\ b.size <= b.capacity
      /\ b.mem \in [0 .. b.capacity - 1 -> Cell]
  BY DEF Good, BufferOK
<1>2. Content(b) \in [1 .. b.size -> Cell]
  <2>1. \A i \in 1 .. b.size : b.mem[i - 1] \in Cell
    BY <1>1
  <2>2. QED
    BY <2>1 DEF Content
<1>3. Content(b) \in Seq(Cell)
  BY <1>1, <1>2
<1>4. Len(Content(b)) = b.size
  BY <1>1, <1>2, <1>3, LenProperties
<1>5. QED
  BY <1>3, <1>4 DEF Strs, Content

(* The doubled capacity is enough, and the old one is kept only if it was. *)
LEMMA CapacitiesEnough ==
  ASSUME NEW b, Good(b), NEW need \in Nat, NEW c \in Capacities(b, need)
  PROVE  c \in Nat /\ c >= b.capacity /\ c - b.size >= need
<1>1. b.capacity \in Nat /\ b.size \in Nat
  BY DEF Good, BufferOK
<1>2. CASE Space(b) >= need
  BY <1>1, <1>2 DEF Capacities, Space
<1>3. CASE ~(Space(b) >= need)
  BY <1>1, <1>3 DEF Capacities, Space
<1>4. QED
  BY <1>2, <1>3

(* Growing moves the bytes and keeps at most one block. *)
LEMMA GrownGood ==
  ASSUME NEW b, Good(b), NEW c \in Nat, c >= b.capacity
  PROVE  /\ Good(Grown(b, c))
         /\ Grown(b, c).size = b.size
         /\ Grown(b, c).capacity = c
         /\ \A i \in 0 .. b.size - 1 : Grown(b, c).mem[i] = b.mem[i]
<1>1. CASE c = b.capacity
  BY <1>1 DEF Grown
<1>2. CASE c # b.capacity
  <2> DEFINE m == [i \in 0 .. c - 1 |-> IF i < b.size THEN b.mem[i] ELSE Junk]
             n == IF b.where = "own" THEN b.blocks + 1 ELSE b.blocks
  <2>1. Grown(b, c) = Buffer("heap", m, b.size, c, n)
    BY <1>2 DEF Grown
  <2>2. /\ b.capacity \in Nat /\ b.size \in Nat /\ b.size <= b.capacity
        /\ b.mem \in [0 .. b.capacity - 1 -> Cell]
    BY DEF Good, BufferOK
  <2>3. c > DefaultSize
    BY <1>2, <2>2, SizesAssumption DEF Good
  <2>4. n = 1
    BY DEF Good, BufferOK
  <2>5. m \in [0 .. c - 1 -> Cell]
    <3>1. \A i \in 0 .. c - 1 : i < b.size => b.mem[i] \in Cell
      BY <2>2
    <3>2. Junk \in Cell
      BY DEF Cell
    <3>3. QED
      BY <3>1, <3>2
  <2>6. \A i \in 0 .. b.size - 1 : m[i] = b.mem[i]
    BY <2>2
  <2>7. BufferOK(Buffer("heap", m, b.size, c, n))
    BY <2>2, <2>4, <2>5 DEF BufferOK, Buffer
  <2> HIDE DEF m, n
  <2>8. Good(Buffer("heap", m, b.size, c, n))
    BY <2>2, <2>3, <2>4, <2>7, SizesAssumption DEF Good, Buffer
  <2>9. QED
    BY <2>1, <2>6, <2>8 DEF Buffer
<1>3. QED
  BY <1>1, <1>2

(* memcpy appends to the content if there is room. *)
LEMMA WrittenAppends ==
  ASSUME NEW b, Good(b), NEW data \in Strs, b.capacity - b.size >= Len(data)
  PROVE  /\ Good(Written(b, data))
         /\ Content(Written(b, data)) = Content(b) \o data
<1> DEFINE m == [i \in DOMAIN b.mem |->
                   IF i >= b.size /\ i < b.size + Len(data)
                   THEN data[i - b.size + 1] ELSE b.mem[i]]
           n == b.size + Len(data)
<1>1. Written(b, data) = Buffer(b.where, m, n, b.capacity, b.blocks)
  BY DEF Written
<1>2. /\ b.capacity \in Nat /\ b.size \in Nat /\ b.blocks \in Nat
      /\ b.where \in {"own", "heap"}
      /\ b.mem \in [0 .. b.capacity - 1 -> Cell]
  BY DEF Good, BufferOK
<1>3. Len(data) \in Nat /\ \A i \in 1 .. Len(data) : data[i] \in Cell
  BY DEF Strs
<1>4. m \in [0 .. b.capacity - 1 -> Cell]
  <2>1. DOMAIN b.mem = 0 .. b.capacity - 1
    BY <1>2
  <2>2. ASSUME NEW i \in 0 .. b.capacity - 1
        PROVE  m[i] \in Cell
    <3>1. CASE i >= b.size /\ i < b.size + Len(data)
      <4>1. i - b.size + 1 \in 1 .. Len(data)
        BY <1>2, <1>3, <3>1
      <4>2. QED
        BY <1>3, <2>1, <3>1, <4>1
    <3>2. CASE ~(i >= b.size /\ i < b.size + Len(data))
      BY <1>2, <2>1, <3>2
    <3>3. QED
      BY <3>1, <3>2
  <2>3. QED
    BY <2>1, <2>2
<1>5. n \in Nat /\ n <= b.capacity
  BY <1>2, <1>3
<1>6. Good(Written(b, data))
  <2> HIDE DEF m, n
  <2>1. BufferOK(Buffer(b.where, m, n, b.capacity, b.blocks))
    BY <1>2, <1>4, <1>5 DEF BufferOK, Buffer
  <2>2. QED
    BY <1>1, <1>5, <2>1 DEF Good, Buffer
<1>7. Content(Written(b, data)) = Content(b) \o data
  <2>1. Content(Written(b, data)) = [i \in 1 .. n |-> m[i - 1]]
    BY <1>1 DEF Content, Buffer
  <2>2. /\ Content(b) \in Seq(Cell) /\ data \in Seq(Cell)
        /\ Len(Content(b)) = b.size
        /\ \A i \in 1 .. b.size : Content(b)[i] = b.mem[i - 1]
    BY ContentIsASeq DEF Strs
  <2>3. /\ Content(b) \o data \in Seq(Cell)
        /\ Len(Content(b) \o data) = n
        /\ \A i \in 1 .. n : (Content(b) \o data)[i] =
             IF i <= b.size THEN Content(b)[i] ELSE data[i - b.size]
    <3> DEFINE s == Content(b)
    <3>1. s \in Seq(Cell) /\ data \in Seq(Cell) /\ Len(s) = b.size
      BY <2>2
    <3> HIDE DEF s, m
    <3>2. /\ s \o data \in Seq(Cell)
          /\ Len(s \o data) = Len(s) + Len(data)
          /\ \A i \in 1 .. Len(s) + Len(data) :
               (s \o data)[i] = IF i <= Len(s) THEN s[i] ELSE data[i - Len(s)]
      BY <3>1, ConcatProperties
    <3>3. QED
      BY <3>1, <3>2, Zenon DEF s
  <2>4. ASSUME NEW i \in 1 .. n
        PROVE  m[i - 1] = (Content(b) \o data)[i]
    <3>1. CASE i <= b.size
      <4>1. (Content(b) \o data)[i] = b.mem[i - 1]
        BY <1>2, <2>2, <2>3, <3>1
      <4>2. m[i - 1] = b.mem[i - 1]
        BY <1>2, <1>3, <1>5, <3>1
      <4>3. QED
        BY <4>1, <4>2
    <3>2. CASE ~(i <= b.size)
      <4>1. (Content(b) \o data)[i] = data[i - b.size]
        BY <2>3, <3>2
      <4>2. m[i - 1] = data[i - b.size]
        BY <1>2, <1>3, <1>5, <3>2
      <4>3. QED
        BY <4>1, <4>2
    <3>3. QED
      BY <3>1, <3>2
  <2>5. QED
    <3> HIDE DEF m, n
    <3>1. Content(b) \o data \in [1 .. n -> Cell]
      BY <2>3, LenProperties
    <3>2. \A i \in 1 .. n : (Content(b) \o data)[i] = m[i - 1]
      BY <2>4
    <3>3. Content(b) \o data = [i \in 1 .. n |-> m[i - 1]]
      BY <3>1, <3>2
    <3>4. QED
      BY <2>1, <3>3
<1>8. QED
  BY <1>6, <1>7

(* Room is made, and the content is longer by data. *)
LEMMA PutsAppends ==
  ASSUME NEW b, Good(b), NEW data \in Strs, NEW need \in Nat, need >= Len(data),
         NEW r \in Puts(b, data, need)
  PROVE  Good(r) /\ Content(r) = Content(b) \o data
<1>1. PICK c \in Capacities(b, need) : r = Written(Grown(b, c), data)
  BY DEF Puts
<1>2. c \in Nat /\ c >= b.capacity /\ c - b.size >= need
  BY CapacitiesEnough
<1>3. /\ Good(Grown(b, c))
      /\ Grown(b, c).size = b.size
      /\ Grown(b, c).capacity = c
      /\ \A i \in 0 .. b.size - 1 : Grown(b, c).mem[i] = b.mem[i]
  BY <1>2, GrownGood
<1>4. Len(data) \in Nat /\ b.size \in Nat
  BY DEF Strs, Good, BufferOK
<1>5. Grown(b, c).capacity - Grown(b, c).size >= Len(data)
  BY <1>2, <1>3, <1>4
<1>6. /\ Good(Written(Grown(b, c), data))
      /\ Content(Written(Grown(b, c), data)) = Content(Grown(b, c)) \o data
  BY <1>3, <1>5, WrittenAppends
<1>7. Content(Grown(b, c)) = Content(b)
  BY <1>3, <1>4 DEF Content
<1>8. QED
  BY <1>1, <1>6, <1>7

(* mybuf_clear gives the block back and leaves nothing. *)
LEMMA ClearedGood ==
  ASSUME NEW b, Good(b)
  PROVE  Good(Cleared(b)) /\ Content(Cleared(b)) = <<>>
<1> DEFINE m == IF b.where = "own" THEN b.mem ELSE Junks(DefaultSize)
           n == IF b.where = "own" THEN b.blocks ELSE b.blocks - 1
<1>1. Cleared(b) = Buffer("own", m, 0, DefaultSize, n)
  BY DEF Cleared
<1>2. n = 0
  BY DEF Good, BufferOK
<1>3. m \in [0 .. DefaultSize - 1 -> Cell]
  <2>1. b.where = "own" => b.capacity = DefaultSize
    BY SizesAssumption DEF Good, BufferOK
  <2>2. QED
    BY <2>1, SizesAssumption DEF Good, BufferOK, Junks, Cell
<1> HIDE DEF m, n
<1>4. Good(Buffer("own", m, 0, DefaultSize, n))
  BY <1>2, <1>3, SizesAssumption DEF Good, BufferOK, Buffer
<1>5. Content(Buffer("own", m, 0, DefaultSize, n)) = <<>>
  BY DEF Content, Buffer
<1>6. QED
  BY <1>1, <1>4, <1>5

-----------------------------------------------------------------------------
(* What one call does: it appends a string, or leaves the buffer as it is, *)
(* or empties it, or replaces its content by a string or a part of itself. *)
Does(old, new) ==
  \/ \E s \in Strings : new = old \o s
  \/ new = old
  \/ new = <<>>
  \/ new \in Strings
  \/ \E i, j \in 0 .. Len(old) : new = SubSeq(old, i + 1, j)

LEMMA StringsAreStrs == Strings \subseteq Strs
BY BytesAssumption DEF Strs, Cell

(* Every call keeps the buffer good and does one of these. *)
LEMMA StepGood ==
  ASSUME Good(buf), Next
  PROVE  Good(buf') /\ Does(Content(buf), Content(buf'))
<1>0. /\ Content(buf) \in Strs
      /\ Len(Content(buf)) = buf.size
      /\ buf.size \in Nat
      /\ \A i \in 1 .. buf.size : Content(buf)[i] = buf.mem[i - 1]
  BY ContentIsASeq DEF Good, BufferOK
<1>1. ASSUME Reserve
      PROVE  Good(buf') /\ Does(Content(buf), Content(buf'))
  <2>1. PICK n \in 0 .. MaxSize : buf' \in Puts(buf, <<>>, n)
    BY <1>1 DEF Reserve
  <2>2. <<>> \in Strs /\ Len(<<>>) = 0
    BY EmptySeq DEF Strs
  <2>3. n \in Nat /\ n >= Len(<<>>)
    BY <2>2, SizesAssumption
  <2>4. Good(buf') /\ Content(buf') = Content(buf) \o <<>>
    BY <2>1, <2>2, <2>3, PutsAppends
  <2>5. Content(buf) \o <<>> = Content(buf)
    BY <1>0, ConcatEmptySeq DEF Strs
  <2>6. QED
    BY <2>4, <2>5 DEF Does
<1>2. ASSUME AppendBytes
      PROVE  Good(buf') /\ Does(Content(buf), Content(buf'))
  <2>1. PICK data \in Strings : buf' \in Puts(buf, data, Len(data))
    BY <1>2 DEF AppendBytes
  <2>2. data \in Strs /\ Len(data) \in Nat
    BY StringsAreStrs, LenProperties DEF Strs
  <2>3. Good(buf') /\ Content(buf') = Content(buf) \o data
    BY <2>1, <2>2, PutsAppends
  <2>4. QED
    BY <2>3 DEF Does
<1>3. ASSUME CatPrintf
      PROVE  Good(buf') /\ Does(Content(buf), Content(buf'))
  <2>1. PICK text \in Strings : buf' \in Puts(buf, text, Len(text) + 1)
    BY <1>3 DEF CatPrintf
  <2>2. text \in Strs /\ Len(text) \in Nat
    BY StringsAreStrs, LenProperties DEF Strs
  <2>3. Len(text) + 1 \in Nat /\ Len(text) + 1 >= Len(text)
    BY <2>2
  <2>4. Good(buf') /\ Content(buf') = Content(buf) \o text
    BY <2>1, <2>2, <2>3, PutsAppends
  <2>5. QED
    BY <2>4 DEF Does
<1>4. ASSUME Clear
      PROVE  Good(buf') /\ Does(Content(buf), Content(buf'))
  BY <1>4, ClearedGood DEF Clear, Does
<1>5. ASSUME ClearAppend
      PROVE  Good(buf') /\ Does(Content(buf), Content(buf'))
  <2> DEFINE Parts == {SubSeq(Content(buf), i + 1, j) : i, j \in 0 .. buf.size}
  <2>1. PICK data \in Strings \cup Parts : buf' \in Puts(Cleared(buf), data, Len(data))
    BY <1>5 DEF ClearAppend
  <2>2. ASSUME NEW i \in 0 .. buf.size, NEW j \in 0 .. buf.size
        PROVE  SubSeq(Content(buf), i + 1, j) \in Strs
    <3>1. \A k \in i + 1 .. j : Content(buf)[k] \in Cell
      BY <1>0, ElementOfSeq DEF Strs
    <3>2. QED
      BY <1>0, <3>1, SubSeqProperties DEF Strs
  <2>3. data \in Strs
    <3>1. ASSUME NEW p \in Parts
          PROVE  p \in Strs
      <4>1. PICK i \in 0 .. buf.size, j \in 0 .. buf.size :
              p = SubSeq(Content(buf), i + 1, j)
        OBVIOUS
      <4>2. QED
        BY <2>2, <4>1
    <3> HIDE DEF Parts
    <3>2. QED
      BY <2>1, <3>1, StringsAreStrs
  <2>4. Len(data) \in Nat /\ Len(data) >= Len(data)
    BY <2>3, LenProperties DEF Strs
  <2> HIDE DEF Parts
  <2>5. Good(Cleared(buf)) /\ Content(Cleared(buf)) = <<>>
    BY ClearedGood
  <2>6. Good(buf') /\ Content(buf') = <<>> \o data
    <3>1. /\ Good(buf')
          /\ Content(buf') = Content(Cleared(buf)) \o data
      BY <2>1, <2>3, <2>4, <2>5, PutsAppends
    <3>2. QED
      BY <2>5, <3>1
  <2>7. <<>> \o data = data
    BY <2>3, ConcatEmptySeq DEF Strs
  <2>8. Content(buf') \in Strings \cup Parts
    BY <2>1, <2>6, <2>7
  <2>9. QED
    BY <1>0, <2>6, <2>8 DEF Does, Parts
<1>6. QED
  BY <1>1, <1>2, <1>3, <1>4, <1>5 DEF Next

LEMMA FreshGood == Good(Fresh) /\ Content(Fresh) = <<>>
<1>1. Junks(DefaultSize) \in [0 .. DefaultSize - 1 -> Cell]
  BY DEF Junks, Cell
<1>2. Good(Fresh)
  BY <1>1, SizesAssumption DEF Good, Fresh, BufferOK, Buffer
<1>3. Content(Fresh) = <<>>
  BY DEF Content, Fresh, Buffer
<1>4. QED
  BY <1>2, <1>3

(* A buffer stays good, whatever is called (all of mybuf.c).               *)
THEOREM Invariance == Spec => []Good(buf)
<1>1. Init => Good(buf)
  BY FreshGood DEF Init
<1>2. Good(buf) /\ [Next]_buf => Good(buf)'
  BY StepGood DEF Good
<1>3. QED
  BY <1>1, <1>2, PTL DEF Spec

(* The buffer's fields have their types, and the block as many bytes as    *)
(* capacity says (mybuf_t).                                                *)
THEOREM TypeCorrect == Spec => []TypeOK
<1>1. Good(buf) => TypeOK
  BY DEF Good, TypeOK
<1>2. QED
  BY <1>1, Invariance, PTL

(* For every default size and every series of calls, nothing is written    *)
(* outside the block, and the buffer never has two blocks and loses none   *)
(* (mybuf_reserve, mybuf_append, mybuf_cat_vprintf, mybuf_clear).          *)
THEOREM NoBlockLost == Spec => []BlockSound
<1>1. Good(buf) => BlockSound
  BY DEF Good, BlockSound, SizeFits, OneBlock
<1>2. QED
  BY <1>1, Invariance, PTL

(* mybuf.c implements the string of mybuf.h (mybuf_append,                 *)
(* mybuf_cat_printf, mybuf_clear, mybuf_clear_append).                     *)
THEOREM RefinesByteString == Spec => ImplementsByteString
<1>1. Init => Promise!StrInit
  BY FreshGood DEF Init, Promise!StrInit
<1>2. Good(buf) /\ [Next]_buf => [Promise!StrNext]_(Content(buf))
  <2>1. ASSUME Good(buf), Next
        PROVE  Promise!StrNext \/ Content(buf') = Content(buf)
    <3>1. Does(Content(buf), Content(buf'))
      BY <2>1, StepGood
    <3>2. QED
      BY <3>1 DEF Does, Promise!StrNext, Promise!StrAppend, Promise!StrClear,
                  Promise!StrReplace
  <2>2. ASSUME UNCHANGED buf
        PROVE  Content(buf') = Content(buf)
    BY <2>2
  <2>3. QED
    BY <2>1, <2>2
<1>3. QED
  BY <1>1, <1>2, Invariance, PTL DEF Spec, ImplementsByteString, Promise!Spec

=============================================================================
