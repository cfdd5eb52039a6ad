------------------------------ MODULE ByteUtils ------------------------------
(***************************************************************************)
(* The bit-range helpers of src/byte_utils.rs, generic over a W-bit        *)
(* unsigned word T.  Rust's << on T drops the bits shifted past W, and ! *)
(* complements all W bits; Bitwise's Not is width-less, so the complement *)
(* is written against the all-ones word.  A shift by W or more overflows   *)
(* (a panic in a debug build); a release build masks the amount to n % W,  *)
(* which is what Shl does.                                                 *)
(***************************************************************************)
EXTENDS Naturals, Bitwise

CONSTANT W          \* the bit width of T

ASSUME W \in Nat \ {0}

\* zero::<T>() complemented: every bit set.
AllOnes == 2^W - 1

\* !x on T.
Complement(x) == AllOnes - x

\* x << n on T, with the amount masked as a release build does.
Shl(x, n) == (x * 2^(n % W)) % 2^W

\* Mutant: a range one bit too wide.
CONST_BIT_RANGE_Wide(start, end) ==
    Shl(Complement(Shl(AllOnes, end - start + 1)), start)

\* CONST_BIT_RANGE (14-17): bits start..end-1 set.
CONST_BIT_RANGE(start, end) ==
    Shl(Complement(Shl(AllOnes, end - start)), start)

\* TRIM_BITS (28-31): the low length bits of word.
TRIM_BITS(word, length) == word & CONST_BIT_RANGE(0, length)

\* FILTER_BIT_RANGE (37-40): bits start..end-1 of word, left in place.
FILTER_BIT_RANGE(word, start, end) == word & CONST_BIT_RANGE(start, end)

\* GET_BIT_RANGE (46-49): bits start..end-1 of word, shifted down.
GET_BIT_RANGE(word, start, end) == TRIM_BITS(shiftR(word, start), end - start)

----------------------------------------------------------------------------
(* Reference definitions, by arithmetic                                    *)

\* The number whose bits start..end-1 are those of word.
FieldOf(word, start, end) == (word \div 2^start) % 2^(end - start)
=============================================================================
