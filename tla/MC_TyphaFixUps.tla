-------------------------- MODULE MC_TyphaFixUps --------------------------
(***************************************************************************)
(* TLC instance of TyphaFixUps.  TLC's integers are 32-bit, so the widths  *)
(* are scaled from 64/32 to 24/12: the int64 product still never wraps     *)
(* for the grace periods enumerated, and the int32-to-int12 conversion     *)
(* wraps at the same relative point (120% of the grace period reaching     *)
(* 2^(NarrowBits-1)).  TyphaFixUps_proofs states the facts at 64/32.       *)
(***************************************************************************)
EXTENDS TyphaFixUps

MCWideBits == 24
MCNarrowBits == 12

\* Every grace period whose 120% fits the narrow width: 0..1706 at 12 bits.
MCGracesFit == 0 .. ((2^(MCNarrowBits - 1) - 1) * 100) \div 120

\* The same range continued past the point where the conversion wraps.
MCGracesWrap == 0 .. 2100

\* Wrap agrees with its definition: the unique b-bit value congruent to x.
ASSUME WrapReference ==
    \A x \in -70 .. 70, b \in 2 .. 5 :
        Wrap(x, b) = CHOOSE y \in -(2^(b - 1)) .. 2^(b - 1) - 1 : (x - y) % 2^b = 0

\* Quot agrees with Go's division: a = q*d + r with r of a's sign, |r| < d.
ASSUME QuotReference ==
    \A a \in -40 .. 40, d \in 1 .. 7 :
        LET q == Quot(a, d)  r == a - q * d
        IN  /\ (a >= 0 => r \in 0 .. d - 1)
            /\ (a < 0 => r \in -(d - 1) .. 0)
=============================================================================
