------------------------------ MODULE Hashing ------------------------------
(***************************************************************************)
(* The key-to-shard functions of ncache as pure operators:                 *)
(*   - hashSlot (src/backend/clusters/hash.go): the Redis Cluster hash tag *)
(*     rule, then utils.Crc16(buf) & mask.  utils.Crc16 is not in src/;   *)
(*     it is the constant function Crc16.                                  *)
(*   - KetamaDispatch (src/backend/hashkit/ketama.go): binary search of    *)
(*     the sorted continuum for the first point >= the key's hash,        *)
(*     wrapping to the first point.  The continuum's points come from MD5  *)
(*     (KetamaHash), which is not modelled: any sorted continuum is input. *)
(* Each is checked against a reference definition written from the rule  *)
(* it implements (spec sections 4.4a and 8), over every bounded input.     *)
(***************************************************************************)
EXTENDS Integers, Sequences, SequencesExt

CONSTANTS
    Crc16,          \* utils.Crc16, a function of byte sequences
    KeyBytes,       \* the bytes keys are made of
    MaxKeyLen,      \* longest k checked
    Masks,          \* slotNum - 1 values checked
    Shards,         \* continuum point indexes (nodes)
    PointValues,    \* continuum point values
    MaxPoints,      \* longest continuum checked
    Hashes          \* k hashes looked up

(* bytes.IndexByte: the 0-based index of the first b in s, or -1. *)
RECURSIVE IndexByteFrom(_, _, _)
IndexByteFrom(s, b, i) ==
    IF i > Len(s) THEN -1 ELSE IF s[i] = b THEN i - 1 ELSE IndexByteFrom(s, b, i + 1)

IndexByte(s, b) == IndexByteFrom(s, b, 1)

(* Go's & on unsigned integers, bit by bit. *)
RECURSIVE BitAnd(_, _)
BitAnd(a, b) ==
    IF a = 0 \/ b = 0 THEN 0
    ELSE 2 * BitAnd(a \div 2, b \div 2) + (a % 2) * (b % 2)

(* The Go slice expression s[i:j]. *)
GoSlice(s, i, j) == SubSeq(s, i + 1, j)

(* The tag test with rightIndex >= 0: an empty tag "{}" would be hashed. *)
hashTagAcceptsEmpty(k) ==
    LET left  == IndexByte(k, "{")
        right == IF left = -1 THEN -1
                 ELSE IndexByte(GoSlice(k, left + 1, Len(k)), "}")
    IN  IF left # -1 /\ right >= 0 THEN GoSlice(k, left + 1, left + right + 1)
                                    ELSE k

(* hashSlot's buf: between the first '{' and the first '}' after it, if  *)
(* that part is not empty; else the whole key.                            *)
hashTag(k) ==
    LET left  == IndexByte(k, "{")
        right == IF left = -1 THEN -1
                 ELSE IndexByte(GoSlice(k, left + 1, Len(k)), "}")
    IN  IF left # -1 /\ right > 0 THEN GoSlice(k, left + 1, left + right + 1)
                                   ELSE k

hashSlot(k, mask) == BitAnd(Crc16[hashTag(k)], mask)

(* The hash tag rule of spec 4.4a: only the substring strictly between   *)
(* the first '{' and the next '}' after it; the whole key if that         *)
(* substring is empty or either brace is missing.                          *)
RefHashTag(k) ==
    LET Braces == {<<i, j>> \in (1..Len(k)) \X (1..Len(k)) :
                     /\ i < j /\ k[i] = "{" /\ k[j] = "}"
                     /\ \A p \in 1..(i - 1) : k[p] # "{"
                     /\ \A q \in (i + 1)..(j - 1) : k[q] # "}"}
    IN  IF \E b \in Braces : b[2] > b[1] + 1
        THEN LET b == CHOOSE b \in Braces : TRUE IN SubSeq(k, b[1] + 1, b[2] - 1)
        ELSE k

-----------------------------------------------------------------------------
(* Continuums.Less and sort.Sort in KetamaUpdate: points ordered by value. *)
SortedByValue(c) == \A i, j \in 1..Len(c) : i < j => c[i].value <= c[j].value

(* The loop `for l < r` finding the first point whose value is not below  *)
(* hash, with a comparison that skips points equal to hash.               *)
RECURSIVE SearchSkipsEqual(_, _, _, _)
SearchSkipsEqual(c, hash, l, r) ==
    IF l < r
    THEN LET m == l + ((r - l) \div 2)
         IN  IF c[m + 1].value <= hash THEN SearchSkipsEqual(c, hash, m + 1, r)
                                       ELSE SearchSkipsEqual(c, hash, l, m)
    ELSE r

(* The loop `for l < r` of KetamaDispatch (0-based l, r; m = l + (r-l)>>1). *)
RECURSIVE Search(_, _, _, _)
Search(c, hash, l, r) ==
    IF l < r
    THEN LET m == l + ((r - l) \div 2)
         IN  IF c[m + 1].value < hash THEN Search(c, hash, m + 1, r)
                                      ELSE Search(c, hash, l, m)
    ELSE r

(* KetamaDispatch: the point found, or the first one if r reached len(c). *)
KetamaDispatch(c, hash) ==
    LET r == Search(c, hash, 0, Len(c))
    IN  c[(IF r = Len(c) THEN 0 ELSE r) + 1].index

(* The ring lookup of spec 4.4a, walking the ring from its first point:  *)
(* the first point whose value is >= the hash, else the first point.     *)
RECURSIVE RefDispatchFrom(_, _, _)
RefDispatchFrom(c, hash, i) ==
    IF i > Len(c) THEN c[1].index
    ELSE IF c[i].value >= hash THEN c[i].index
    ELSE RefDispatchFrom(c, hash, i + 1)

RefDispatch(c, hash) == RefDispatchFrom(c, hash, 1)

-----------------------------------------------------------------------------
Continua ==
    {c \in BoundedSeq([index : Shards, value : PointValues], MaxPoints) :
        c # <<>> /\ SortedByValue(c)}

(* hashSlot implements the hash tag rule: for every key of up to          *)
(* MaxKeyLen bytes ('{', '}' and a letter among them) and every mask, the *)
(* slot is the CRC of exactly the tag the rule names, so keys sharing a   *)
(* tag share a slot and "{}" never selects the empty string.              *)
SlotsFollowTags ==
    \A k \in BoundedSeq(KeyBytes, MaxKeyLen), mask \in Masks :
        hashSlot(k, mask) = BitAnd(Crc16[RefHashTag(k)], mask)

(* KetamaDispatch's binary search returns the reference ring lookup for   *)
(* every sorted continuum of up to MaxPoints points (ties included) and   *)
(* every hash, including hashes beyond the last point, which wrap.        *)
DispatchFindsRingPoint ==
    \A c \in Continua, h \in Hashes : KetamaDispatch(c, h) = RefDispatch(c, h)
=============================================================================
