------------------------------ MODULE Bitmaps -------------------------------
(***************************************************************************)
(* Maps whose missing keys have default values (crates/map-utils) and the  *)
(* two bitmaps on top of them (crates/bitmap): BitMap, which keeps a word  *)
(* of the key's own type and no word that is zero, and BitMap256, which    *)
(* keeps the nonces of an account in words of bytes.  A map is a function  *)
(* whose domain is the keys it stores.                                     *)
(***************************************************************************)
EXTENDS Naturals

CONSTANTS
    BitsForBitPos,    \* BITS_FOR_BIT_POS: a word of BitMap has 2^this bits
    ByteBits,         \* bits of a byte of BitMap256
    WordBytes,        \* bytes of a word of BitMap256
    Bits              \* the numbers that are set and cleared

ASSUME BitmapAssumption ==
    /\ BitsForBitPos \in Nat /\ ByteBits \in Nat \ {0} /\ WordBytes \in Nat \ {0}
    /\ Bits \subseteq Nat

VARIABLES
    words, word_last,          \* BitMap, and its last operation and answer
    words256, word256_last     \* BitMap256, and its last operation and answer

bitmap_vars == <<words, word_last>>
bitmap256_vars == <<words256, word256_last>>
bitmaps_vars == <<bitmap_vars, bitmap256_vars>>
-----------------------------------------------------------------------------
(* Map: insert and remove.                                                 *)
MapInsert(m, k, v) == [j \in DOMAIN m \cup {k} |-> IF j = k THEN v ELSE m[j]]
MapRemove(m, k) == [j \in DOMAIN m \ {k} |-> m[j]]

(* An entry of a DefaultMap, when it is dropped with the value v.          *)
DropVacant(m, k, v, default) == IF v # default THEN MapInsert(m, k, v) ELSE m
DropOccupied(m, k, v, default) ==
    IF v = default THEN MapRemove(m, k) ELSE MapInsert(m, k, v)

(* entry_or_default(): the value that the caller gets to modify, and the   *)
(* map when the caller is done and the value is v.                         *)
EntryOrDefault(m, k, default) == IF k \in DOMAIN m THEN m[k] ELSE default
DropEntry(m, k, v, default) ==
    IF k \in DOMAIN m THEN DropOccupied(m, k, v, default) ELSE DropVacant(m, k, v, default)

(* Entry::or_default(), which inserts the default.                         *)
OrDefault(m, k, default) == IF k \in DOMAIN m THEN m ELSE MapInsert(m, k, default)
-----------------------------------------------------------------------------
(* Words are numbers, and a mask is a power of two.                        *)
HasBit(word, mask) == (word \div mask) % 2 = 1
SetMask(word, mask) == IF HasBit(word, mask) THEN word ELSE word + mask
ClearMask(word, mask) == IF HasBit(word, mask) THEN word - mask ELSE word
ToggleMask(word, mask) == IF HasBit(word, mask) THEN word - mask ELSE word + mask
ApplyMask(op, word, mask) ==
    CASE op = "set"    -> SetMask(word, mask)
      [] op = "clear"  -> ClearMask(word, mask)
      [] op = "toggle" -> ToggleMask(word, mask)

(* BitMap::split_word_mask().                                              *)
WordOf(n) == n \div 2 ^ BitsForBitPos
MaskOf(n) == 2 ^ (n % 2 ^ BitsForBitPos)

GetBit(m, n) == WordOf(n) \in DOMAIN m /\ HasBit(m[WordOf(n)], MaskOf(n))
AsIter(m) ==
    UNION {{w * 2 ^ BitsForBitPos + pos :
               pos \in {p \in 0 .. 2 ^ BitsForBitPos - 1 : HasBit(m[w], 2 ^ p)}} :
           w \in DOMAIN m}

(* set_bit(), clear_bit() and toggle_bit() of BitMap, through the entry of *)
(* the word.                                                               *)
UpdateBit(op, n) ==
    /\ words' = LET word == EntryOrDefault(words, WordOf(n), 0)
                IN  DropEntry(words, WordOf(n), ApplyMask(op, word, MaskOf(n)), 0)
    /\ word_last' = [op |-> op, was |-> GetBit(words, n)]
    /\ UNCHANGED bitmap256_vars
SetBit(n) == UpdateBit("set", n)
ClearBit(n) == UpdateBit("clear", n)
ToggleBit(n) == UpdateBit("toggle", n)
SetBitTo(n, v) == IF v THEN SetBit(n) ELSE ClearBit(n)
-----------------------------------------------------------------------------
(* BitMap256: the last byte of the number is the bit, the others are the   *)
(* key of the word.                                                        *)
WordBits == ByteBits * WordBytes
EmptyWord == [byte \in 0 .. WordBytes - 1 |-> 0]
PrefixOf(n) == n \div WordBits
ByteOfLast(n) == (n % WordBits) % ByteBits
ByteOf(n) == (n % WordBits) \div ByteBits
ByteMaskOf(n) == 2 ^ ((n % WordBits) % ByteBits)
GetBit256(m, n) ==
    PrefixOf(n) \in DOMAIN m /\ HasBit(m[PrefixOf(n)][ByteOf(n)], ByteMaskOf(n))
AsIter256(m) ==
    UNION {{n \in p * WordBits .. (p + 1) * WordBits - 1 : GetBit256(m, n)} : p \in DOMAIN m}

(* set_bit(), clear_bit() and toggle_bit(): a missing word is inserted     *)
(* first, even if it stays zero.                                           *)
GetMutByte(m, n) == OrDefault(m, PrefixOf(n), EmptyWord)
UpdateBit256(op, n) ==
    LET m == GetMutByte(words256, n)
    IN  /\ words256' = [m EXCEPT ![PrefixOf(n)][ByteOf(n)] = ApplyMask(op, @, ByteMaskOf(n))]
        /\ word256_last' = [op |-> op, was |-> GetBit256(words256, n)]
        /\ UNCHANGED bitmap_vars
SetBit256(n) == UpdateBit256("set", n)
ClearBit256(n) == UpdateBit256("clear", n)
ToggleBit256(n) == UpdateBit256("toggle", n)
SetBitTo256(n, v) == IF v THEN SetBit256(n) ELSE ClearBit256(n)

CleanupByPrefix(prefix) ==
    /\ words256' = MapRemove(words256, prefix)
    /\ word256_last' = [op |-> "cleanup", was |-> prefix \in DOMAIN words256]
    /\ UNCHANGED bitmap_vars
-----------------------------------------------------------------------------
BitmapsInit ==
    /\ words = [w \in {} |-> 0] /\ word_last = [op |-> "new", was |-> FALSE]
    /\ words256 = [w \in {} |-> EmptyWord] /\ word256_last = [op |-> "new", was |-> FALSE]

BitmapNext ==
    \E n \in Bits : (\E v \in BOOLEAN : SetBitTo(n, v)) \/ ToggleBit(n)
Bitmap256Next ==
    \E n \in Bits :
        \/ \E v \in BOOLEAN : SetBitTo256(n, v)
        \/ ToggleBit256(n)
        \/ CleanupByPrefix(PrefixOf(n))
-----------------------------------------------------------------------------
WordsOf256 == {{m \in Bits : PrefixOf(m) = PrefixOf(n)} : n \in Bits}
Plain == INSTANCE BitSet WITH Words <- {}, set <- AsIter(words), last <- word_last
Nonces == INSTANCE BitSet
    WITH Words <- WordsOf256, set <- AsIter256(words256), last <- word256_last

(* DefaultMap: a BitMap never stores a word that is zero, so that clearing *)
(* its bits gives their storage back.                                      *)
NoDefaultIsStored == \A w \in DOMAIN words : words[w] # 0

(* Both bitmaps implement a set of numbers: every operation changes the    *)
(* one number it is given, tells whether it was there, and agrees with the *)
(* iterator; and BitMap keeps no zeroes.                                   *)
BitmapsAreSets == Plain!Spec /\ Nonces!Spec /\ []NoDefaultIsStored
=============================================================================
