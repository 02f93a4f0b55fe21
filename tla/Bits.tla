-------------------------------- MODULE Bits --------------------------------
(***************************************************************************)
(* The puzzles of bits.c and the functions of tests.c they are compared     *)
(* with, over the words of the machine: an int is a TLA+ integer from -2^31 *)
(* to 2^31 - 1, every operation wraps as gcc compiles it, and an unsigned   *)
(* is the int of the same bits.                                             *)
(***************************************************************************)
EXTENDS Integers, Sequences

LOCAL INSTANCE Bitwise

-----------------------------------------------------------------------------
(* Words, by halves of 16 bits *)

Half == 65536
Hi(x) == (x \div Half) % Half
Lo(x) == x % Half
Join(hi, lo) == (IF hi >= 32768 THEN hi - Half ELSE hi) * Half + lo

NotW(x) == (-1) - x
AndW(x, y) == Join(Hi(x) & Hi(y), Lo(x) & Lo(y))
OrW(x, y) == NotW(AndW(NotW(x), NotW(y)))
XorW(x, y) == AndW(OrW(x, y), NotW(AndW(x, y)))
AddW(x, y) == LET lo == Lo(x) + Lo(y)
              IN  Join((Hi(x) + Hi(y) + lo \div Half) % Half, lo % Half)
Shl(x, k) == IF k < 16 THEN Join((Hi(x) * 2^k + (Lo(x) * 2^k) \div Half) % Half, (Lo(x) * 2^k) % Half)
             ELSE Join((Lo(x) * 2^(k - 16)) % Half, 0)
Sar(x, k) == IF k < 16 THEN x \div 2^k ELSE (x \div Half) \div 2^(k - 16)
Shr(x, k) == IF k = 0 THEN x
             ELSE IF k < 16 THEN Join(Hi(x) \div 2^k, (Hi(x) % 2^k) * 2^(16 - k) + Lo(x) \div 2^k)
             ELSE Hi(x) \div 2^(k - 16)
Bool(b) == IF b THEN 1 ELSE 0
NotC(x) == Bool(x = 0)          \* !x
TMin == Join(32768, 0)
TMax == NotW(TMin)

-----------------------------------------------------------------------------
(* bits.c *)

bitAnd(x, y) == NotW(OrW(NotW(x), NotW(y)))
getByte(x, k) == AndW(255, Sar(x, Shl(k, 3)))

(* mutant: the mask is not corrected for a shift by nothing *)
logicalShiftMask(x, k) == AndW(Sar(x, k), Sar(TMax, IF k = 0 THEN 0 ELSE k - 1))

logicalShift(x, k) ==
    LET f == NotC(k)
        z == AddW(Shl(AddW(Shl(f, 7), 127), 24), Shl(255, 16) + Shl(255, 8) + 255)
    IN  AndW(Sar(x, k), Sar(z, k - 1 + f))

bitCount(x) == 1

(* each step ors the upper part of what is left onto the lower one *)
bang(x) ==
    LET fold[k \in {0, 1, 2, 4, 8, 16}] ==
            IF k = 0 THEN x
            ELSE LET above == IF k = 16 THEN x ELSE fold[2 * k] IN OrW(Sar(above, k), above)
    IN  AndW(NotW(fold[1]), 1)

tmin == Shl(1, 31)

fitsBits(x, k) ==
    LET top == Sar(x, k - 1)
    IN  OrW(OrW(NotC(XorW(top, -1)), NotC(top)), Sar(k, 5))

divpwr2(x, k) ==
    LET rest == AndW(NotW(Shl(-1, k)), x)
    IN  AddW(Sar(x, k), AndW(NotC(NotC(rest)), AndW(Sar(x, 31), 1)))

negate(x) == AddW(NotW(x), 1)
isPositive(x) == AndW(NotC(NotC(AndW(NotW(TMin), x))), NotC(Sar(x, 31)))

isLessOrEqual(x, y) ==
    LET f1 == AndW(Sar(x, 31), 1)
        f3 == XorW(f1, AndW(Sar(y, 31), 1))
        f4 == OrW(NotC(NotC(AndW(AddW(x, AddW(NotW(y), 1)), TMin))), NotC(XorW(x, y)))
    IN  OrW(AndW(f4, NotC(f3)), AndW(f3, f1))

(* the masks keep the bits whose number has a one in that place *)
ilog2(x) ==
    LET mask(byte) == Join(byte * 256 + byte, byte * 256 + byte)
        any(m) == NotC(NotC(AndW(m, x)))
    IN  Shl(any(Join(65535, 0)), 4) + Shl(any(Join(65280, 65280)), 3) + Shl(any(mask(240)), 2)
            + Shl(any(mask(204)), 1) + any(mask(170))

Exponent(uf) == AndW(Shr(uf, 23), 255)
Fraction(uf) == AndW(Join(127, 65535), uf)
IsNan(uf) == Exponent(uf) = 255 /\ Fraction(uf) # 0

float_neg(uf) == IF IsNan(uf) THEN uf ELSE AddW(TMin, uf)

(* Unfinished: the exponent is computed and not used. *)
float_i2f(x) ==
    IF x = TMin THEN Join(52992, 0)
    ELSE IF x = 0 THEN 0
    ELSE LET positive[y \in Int] == IF y > 0 THEN positive[Shl(y, 1)] ELSE y
         IN  Shr(AndW(Shl(positive[IF x < 0 THEN negate(x) ELSE x], 1), Join(65535, 65024)), 9) + 1

float_twice(uf) == 2

-----------------------------------------------------------------------------
(* tests.c *)

test_bitAnd(x, y) == AndW(x, y)
test_getByte(x, k) == Shr(x, 8 * k) % 256
test_logicalShift(x, k) == Shr(x, k)
test_bitCount(x) == LET ones[k \in 0 .. 32] == IF k = 32 THEN 0 ELSE AndW(Sar(x, k), 1) + ones[k + 1]
                    IN  ones[0]
test_bang(x) == NotC(x)
test_tmin == TMin
test_fitsBits(x, k) == Bool(x >= AddW(NotW(Shl(1, k - 1)), 1) /\ x <= AddW(Shl(1, k - 1), -1))
test_divpwr2(x, k) == (x \div 2^k) + Bool(x < 0 /\ x % 2^k # 0)
test_negate(x) == AddW(NotW(x), 1)
test_isPositive(x) == Bool(x > 0)
test_isLessOrEqual(x, y) == Bool(x <= y)

(* The highest bit that is set; without one the loop goes on for ever. *)
Endless == "endless"
test_ilog2(x) == IF x = 0 THEN Endless
                 ELSE CHOOSE k \in 0 .. 31 : Shr(x, k) = 1

Negative(uf) == AndW(uf, TMin)
test_float_neg(uf) == IF IsNan(uf) THEN uf ELSE XorW(uf, TMin)

(* (float) x rounds to the nearest, and to the even one of two. *)
test_float_i2f(x) ==
    IF x = 0 THEN 0
    ELSE LET u == IF x < 0 THEN negate(x) ELSE x
             top == CHOOSE k \in 0 .. 31 : Shr(u, k) = 1
             left == Shl(u, 31 - top)
             tail == AndW(left, 255)
             kept == AndW(Shr(left, 8), Join(127, 65535))
             up == Bool(tail > 128 \/ (tail = 128 /\ kept % 2 = 1))
         IN  AddW(OrW(Negative(x), Shl(127 + top, 23)), kept + up)

test_float_twice(uf) ==
    CASE Exponent(uf) = 255 -> uf
      [] Exponent(uf) = 254 -> OrW(Negative(uf), Shl(255, 23))
      [] Exponent(uf) = 0   -> OrW(Negative(uf), Shl(Fraction(uf), 1))
      [] OTHER              -> AddW(uf, Shl(1, 23))

=============================================================================
