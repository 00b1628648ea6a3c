--------------------------- MODULE KeyComparators ---------------------------
(***************************************************************************)
(* The comparators the B-tree of experiments/cursor/btree.rs is given:     *)
(* keys are stored as bytes, and their order is found from the bytes.  A   *)
(* byte is a number below `base', 256 in the code.                         *)
(***************************************************************************)
EXTENDS Integers, Sequences, FiniteSetsExt

(* Order of two sequences of bytes: memcmp, and the order of UTF-8 strings.*)
lexicographic(a, b) ==
    LET differ == {i \in DOMAIN a \intersect DOMAIN b : a[i] # b[i]}
        first == Min(differ)
    IN  IF differ = {}
        THEN IF Len(a) = Len(b) THEN "Equal"
             ELSE IF Len(a) < Len(b) THEN "Less" ELSE "Greater"
        ELSE IF a[first] < b[first] THEN "Less" ELSE "Greater"

(* The first `size' bytes of both, whatever follows them.                  *)
FixedSizeMemCmp(size, a, b) ==
    lexicographic(SubSeq(a, 1, size), SubSeq(b, 1, size))

from_le_bytes(bytes, base) ==
    LET value[i \in 0..Len(bytes)] ==
            IF i = Len(bytes) THEN 0 ELSE bytes[i + 1] + base * value[i + 1]
    IN  value[0]

(* The strings that follow their lengths, which take `size' bytes, the     *)
(* least significant one first.                                            *)
StringCmp(size, base, a, b) ==
    LET string(bytes) ==
            SubSeq(bytes, size + 1,
                   size + from_le_bytes(SubSeq(bytes, 1, size), base))
    IN  lexicographic(string(a), string(b))

(* Bytes of the length of a string of at most so many characters: one of   *)
(* UTF-8 takes up to four bytes.                                           *)
utf8_length_prefix_bytes(max_characters, base) ==
    IF 4 * max_characters < base THEN 1
    ELSE IF 4 * max_characters < base * base THEN 2 ELSE 4

(* The comparator for the keys of a data type.                             *)
BTreeKeyComparator(type) ==
    IF type.name = "Varchar"
    THEN [cmp |-> "StrCmp", size |-> utf8_length_prefix_bytes(type.max, type.base)]
    ELSE [cmp |-> "MemCmp", size |-> type.bytes]

bytes_cmp(type, a, b) ==
    LET c == BTreeKeyComparator(type)
    IN  IF c.cmp = "StrCmp" THEN StringCmp(c.size, type.base, a, b)
        ELSE FixedSizeMemCmp(c.size, a, b)

(* Integers are stored in big endian.                                      *)
to_be_bytes(n, count, base) ==
    LET digits[i \in 0..count] ==
            IF i = 0 THEN n ELSE digits[i - 1] \div base
    IN  [i \in 1..count |-> digits[count - i] % base]

to_le_bytes(n, count, base) ==
    LET be == to_be_bytes(n, count, base)
    IN  [i \in 1..count |-> be[count - i + 1]]

(* A key as it is stored: an integer, or the string of that rank in the    *)
(* order of the strings, with its length before it.                        *)
serialize(type, key) ==
    IF type.name = "Varchar"
    THEN LET string == type.strings[key]
             size == utf8_length_prefix_bytes(type.max, type.base)
         IN  to_le_bytes(Len(string), size, type.base) \o string
    ELSE to_be_bytes(key, type.bytes, type.base)
=============================================================================
