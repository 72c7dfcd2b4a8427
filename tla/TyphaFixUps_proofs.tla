------------------------- MODULE TyphaFixUps_proofs -------------------------
(***************************************************************************)
(* Proofs about the Typha progress-deadline fix-up with an int32 deadline  *)
(* and a grace period width with room for 120 times any grace period      *)
(* that fits (int64 has 2^63 > 2.2 * 10^11 of room).                      *)
(***************************************************************************)
EXTENDS TyphaFixUps, TLAPS

\* The largest grace period whose 120% still fits an int32.
MaxFitGrace == 1789569706

\* The grace periods for which the fix-up is exact.
FitGraces == 0 .. MaxFitGrace

\* minProgressDeadline is an int32, and the int64 product of a grace
\* period that fits cannot wrap.
GoWidths ==
    /\ NarrowBits = 32
    /\ 2^(WideBits - 1) > 120 * MaxFitGrace + 120

\* A value in the non-negative half of a width is its own wrap-around.
LEMMA WrapId ==
    ASSUME NEW b, NEW x \in Int, 2^(b - 1) \in Int, 0 <= x, x < 2^(b - 1)
    PROVE  Wrap(x, b) = x
<1> DEFINE h == 2^(b - 1)
<1>1. x + h \in 0 .. 2 * h - 1 /\ 2 * h > 0
  BY SMT
<1>2. ((x + h) % (2 * h)) - h = x
  BY <1>1, SMT
<1> QED BY <1>2 DEF Wrap

LEMMA FitGracesBounds ==
    ASSUME NEW g \in FitGraces
    PROVE  g \in Int /\ 0 <= g /\ g <= MaxFitGrace
BY SMT DEF FitGraces

LEMMA DefaultGraceFits == DefaultGrace \in FitGraces
<1>1. DefaultGrace \in Int /\ 0 <= DefaultGrace /\ DefaultGrace <= MaxFitGrace
  BY SMT DEF DefaultGrace, MaxFitGrace
<1> QED BY <1>1, SMT DEF FitGraces

\* For a grace period that fits, the computed minimum is exact: at least
\* 600 seconds and at least 120% of the grace period.
LEMMA MinDeadlineFits ==
    ASSUME GoWidths, NEW g \in Int, 0 <= g, g <= MaxFitGrace
    PROVE  /\ MinProgressDeadline(g) >= 600
           /\ MinProgressDeadline(g) * 100 >= g * 120 - 99
<1> DEFINE q == (g * 120) \div 100
<1>1. 2^(WideBits - 1) \in Int /\ 0 <= g * 120 /\ g * 120 < 2^(WideBits - 1)
  <2>1. 2^(WideBits - 1) \in Int
    BY WidthAssumption, SMT
  <2> QED BY <2>1, SMT DEF GoWidths, MaxFitGrace
<1>2. Wrap(g * 120, WideBits) = g * 120
  BY <1>1, WrapId
<1>3. Quot(g * 120, 100) = q
  BY <1>1, SMT DEF Quot
<1>4. q \in Int /\ 0 <= q /\ q < 2^(32 - 1) /\ q * 100 >= g * 120 - 99
  BY SMT DEF MaxFitGrace
<1>5. Wrap(q, NarrowBits) = q
  <2>1. 2^(32 - 1) \in Int
    BY SMT
  <2> QED BY <1>4, <2>1, WrapId DEF GoWidths
<1>6. MinProgressDeadline(g) = IF q < 600 THEN 600 ELSE q
  BY <1>2, <1>3, <1>5, SMT DEF MinProgressDeadline
<1> QED BY <1>4, <1>6, SMT

\* The deadline of an unset ProgressDeadlineSeconds is the computed minimum.
LEMMA DeadlineOfNil ==
    ASSUME NEW g
    PROVE  ProgressDeadline(g, Nil) = MinProgressDeadline(g)
BY DEF ProgressDeadline

(***************************************************************************)
(* For every grace period an override may set up to MaxFitGrace seconds,  *)
(* every rendered Typha Deployment has a progress deadline of at least     *)
(* 600 seconds and at least 120% of its termination grace period          *)
(* (applyPostOverrideFixUps, part_000:3118).  The invariant is that the    *)
(* state is the render of some grace period that fits.                     *)
(***************************************************************************)
THEOREM DeadlineSafe ==
    GoWidths /\ Graces \subseteq FitGraces => (Spec => []DeadlineCoversGrace)
<1> SUFFICES ASSUME GoWidths, Graces \subseteq FitGraces
             PROVE  Spec => []DeadlineCoversGrace
  OBVIOUS
<1> DEFINE Rendered(g) == grace = g /\ deadline = ProgressDeadline(g, Nil)
<1> DEFINE Inv == \E g \in FitGraces : Rendered(g)
<1>1. Init => Inv
  BY DefaultGraceFits DEF Init
<1>2. Inv /\ [Next]_vars => Inv'
  <2> SUFFICES ASSUME Inv, [Next]_vars PROVE Inv'
    OBVIOUS
  <2>1. CASE RenderDefault
    BY <2>1, DefaultGraceFits DEF RenderDefault
  <2>2. ASSUME NEW g \in Graces, RenderOverride(g) PROVE Inv'
    BY <2>2 DEF RenderOverride
  <2>3. CASE UNCHANGED vars
    BY <2>3 DEF vars
  <2> QED BY <2>1, <2>2, <2>3 DEF Next
<1>3. Inv => DeadlineCoversGrace
  <2> SUFFICES ASSUME NEW g \in FitGraces, Rendered(g)
               PROVE  DeadlineCoversGrace
    OBVIOUS
  <2>1. deadline = MinProgressDeadline(g)
    BY DeadlineOfNil
  <2> QED BY <2>1, FitGracesBounds, MinDeadlineFits DEF DeadlineCoversGrace
<1> QED BY <1>1, <1>2, <1>3, PTL DEF Spec

(***************************************************************************)
(* One second more and the int32 conversion wraps: an override of          *)
(* 1789569707 seconds gives 120% = 2147483648 = 2^31, which int32() turns  *)
(* into -2^31, so the fix-up falls back to 600 seconds, far below the      *)
(* grace period the comment at part_000:3116 means to take account of.     *)
(***************************************************************************)
THEOREM DeadlineWraps ==
    GoWidths => MinProgressDeadline(MaxFitGrace + 1) = 600
<1> SUFFICES ASSUME GoWidths PROVE MinProgressDeadline(MaxFitGrace + 1) = 600
  OBVIOUS
<1>1. (MaxFitGrace + 1) * 120 = 214748364840 /\ 214748364840 \div 100 = 2147483648
  BY SMT DEF MaxFitGrace
<1>2. Wrap(214748364840, WideBits) = 214748364840
  <2>1. 2^(WideBits - 1) \in Int /\ 214748364840 < 2^(WideBits - 1)
    BY WidthAssumption, SMT DEF GoWidths, MaxFitGrace
  <2> QED BY <2>1, WrapId
<1>3. Quot(214748364840, 100) = 2147483648
  BY <1>1, SMT DEF Quot
<1>4. Wrap(2147483648, NarrowBits) = -2147483648
  <2>1. 2^(32 - 1) = 2147483648
    BY SMT
  <2> QED BY <2>1, SMT DEF Wrap, GoWidths
<1> QED BY <1>1, <1>2, <1>3, <1>4, SMT DEF MinProgressDeadline
=============================================================================
