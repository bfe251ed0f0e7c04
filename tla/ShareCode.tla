----------------------------- MODULE ShareCode -----------------------------
(***************************************************************************)
(* Share codes (video/sharecode.go): a code is computed from the id of a   *)
(* video and nothing is stored.  An id is mixed by a multiplication modulo *)
(* Radix^7, written in seven symbols, and followed by a check symbol; the  *)
(* code that was pasted is read back by the inverse multiplication.        *)
(*                                                                         *)
(* A character is the place of its capital in the alphabet; separators,    *)
(* which are dropped, do not occur in what ExtractShareCode's patterns     *)
(* match.  In the code Radix is 32 and Word 2^64.                          *)
(***************************************************************************)
EXTENDS Integers, Sequences, FiniteSetsExt

CONSTANTS
    Radix,              \* symbols of the alphabet
    Word,               \* 2^64: where uint64 wraps
    mixMultiplier,
    maxShareTextBytes

shareCodePayloadLen == 7
shareCodeLength == shareCodePayloadLen + 1
Modulus == Radix * Radix * Radix * Radix * Radix * Radix * Radix
mixMask == Modulus - 1

ASSUME ShareCodeAssumption ==
    /\ Radix \in {2, 4, 8, 16, 32}
    /\ mixMultiplier \in Nat /\ mixMultiplier % 2 = 1
    /\ Word \in Nat \ {0} /\ Word % Modulus = 0
    /\ maxShareTextBytes \in Nat

Symbols == 0..Radix - 1
LikeOne == -1           \* i or l
LikeZero == -2          \* o
Foreign == -3           \* u, which is not in the alphabet
-----------------------------------------------------------------------------
\* One step of Newton's iteration, and the inverse that five of them find.
Newton(inv) == (inv * (2 - mixMultiplier * inv)) % Word
mixInverse ==
    Newton(Newton(Newton(Newton(Newton(mixMultiplier))))) % Modulus

\* Odd weights: each is invertible modulo a power of two.
shareChecksum(v) ==
    (v[1] + 3 * v[2] + 5 * v[3] + 7 * v[4] + 9 * v[5] + 11 * v[6] + 13 * v[7]) % Radix

\* The seven symbols of a number, the last one first, and the number that
\* seven symbols spell.
Spell(n) ==
    LET q6 == n \div Radix   q5 == q6 \div Radix  q4 == q5 \div Radix
        q3 == q4 \div Radix  q2 == q3 \div Radix  q1 == q2 \div Radix
    IN <<q1 % Radix, q2 % Radix, q3 % Radix, q4 % Radix, q5 % Radix, q6 % Radix, n % Radix>>
Read(v) ==
    (((((v[1] * Radix + v[2]) * Radix + v[3]) * Radix + v[4]) * Radix + v[5])
        * Radix + v[6]) * Radix + v[7]

NoCode == <<>>          \* ErrShareCodeUnsupported
NoVideo == 0            \* ErrInvalidShareCode, ErrShareCodeNotFound

Mixed(videoID) == (videoID * mixMultiplier) % Modulus

EncodeShareCode(videoID) ==
    IF videoID \notin 1..mixMask THEN NoCode
      ELSE LET v == Spell(Mixed(videoID)) IN Append(v, shareChecksum(v))

normalizeShareCode(code) ==
    [i \in DOMAIN code |-> IF code[i] = LikeOne THEN 1
                             ELSE IF code[i] = LikeZero THEN 0 ELSE code[i]]

\* A code of the right length, of symbols, that its check symbol agrees with.
Valid(code) ==
    /\ Len(code) = shareCodeLength
    /\ \A i \in 1..shareCodeLength : code[i] \in Symbols
    /\ code[shareCodeLength] = shareChecksum(code)

Unmixed(mixed) == (mixed * mixInverse) % Modulus

DecodeShareCode(code) ==
    LET normalized == normalizeShareCode(code) IN
    IF Valid(normalized) THEN Unmixed(Read(normalized)) ELSE NoVideo

\* The first of some candidates that can be decoded.
FirstDecoded(codes) ==
    LET hits == {i \in 1..Len(codes) : DecodeShareCode(codes[i]) # NoVideo} IN
    IF hits = {} THEN NoVideo ELSE DecodeShareCode(codes[Min(hits)])

\* A pasted text, as its regular expressions see it: its length, whether all
\* of it is one code, the codes after "/s/" and the codes before ":/".
ExtractShareCode(text) ==
    IF text.bytes > maxShareTextBytes THEN NoVideo      \* ErrShareTextTooLong
      ELSE IF text.bare # NoCode THEN DecodeShareCode(text.bare)
      ELSE FirstDecoded(text.links \o text.marked)
=============================================================================
