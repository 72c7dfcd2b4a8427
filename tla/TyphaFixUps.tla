---------------------------- MODULE TyphaFixUps ----------------------------
(***************************************************************************)
(* The post-override fix-ups of the Typha Deployment render               *)
(* (typhaComponent.typhaDeployment and applyPostOverrideFixUps in          *)
(* src/unnamed/part_000).  The Deployment is built with a termination      *)
(* grace period of defaultTyphaTerminationGracePeriod seconds and no       *)
(* progress deadline; the user's TyphaDeployment overrides may replace the *)
(* grace period; the fix-up then derives the progress deadline from it:   *)
(*                                                                         *)
(*    minProgressDeadline := int32(terminationGracePeriod * 120 / 100)     *)
(*                                                                         *)
(* The arithmetic is Go's: the product is an int64 and wraps modulo 2^64,  *)
(* "/" truncates toward zero, and int32() keeps the low 32 bits as a two's *)
(* complement number.  The widths are constants so that TLC can run the    *)
(* same definitions at scaled widths; the proofs take an int32 deadline.  *)
(*                                                                         *)
(* Each render is a fresh computation (the controller re-renders the       *)
(* Deployment on every pass), so the state is the last rendered grace      *)
(* period and progress deadline.  The copy of the grace period into the    *)
(* TYPHA_SHUTDOWNTIMEOUTSECS env var (a decimal formatting) is left out.   *)
(***************************************************************************)
EXTENDS Integers

CONSTANTS
    WideBits,     \* width of terminationGracePeriod (int64 in the code)
    NarrowBits,   \* width of minProgressDeadline (int32 in the code)
    Graces,       \* grace periods a TyphaDeployment override may carry
    Nil           \* an unset *int32 pointer

ASSUME WidthAssumption ==
    /\ WideBits \in Nat \ {0, 1}
    /\ NarrowBits \in Nat \ {0, 1}

ASSUME GracesAssumption == Graces \subseteq Int /\ Nil \notin Int

VARIABLES
    grace,      \* Spec.Template.Spec.TerminationGracePeriodSeconds of the last render
    deadline    \* Spec.ProgressDeadlineSeconds of the last render

vars == <<grace, deadline>>

\* defaultTyphaTerminationGracePeriod.
DefaultGrace == 300

\* x converted to a b-bit two's complement integer (Go integer wrap-around):
\* the representative of x modulo 2^b in -2^(b-1) .. 2^(b-1) - 1.
Wrap(x, b) == LET half == 2^(b - 1) IN ((x + half) % (2 * half)) - half

\* Go's integer division: the quotient truncated toward zero.
Quot(a, d) == IF a >= 0 THEN a \div d ELSE -((-a) \div d)

\* minProgressDeadline after the floor of 600 seconds.
MinProgressDeadlineNoFloor(g) ==
    Wrap(Quot(Wrap(g * 120, WideBits), 100), NarrowBits)

MinProgressDeadline(g) ==
    LET m == Wrap(Quot(Wrap(g * 120, WideBits), 100), NarrowBits)
    IN  IF m < 600 THEN 600 ELSE m

\* The fix-up of Spec.ProgressDeadlineSeconds p for grace period g.
ProgressDeadline(g, p) ==
    IF p = Nil \/ p < MinProgressDeadline(g) THEN MinProgressDeadline(g) ELSE p

\* The Deployment as first rendered with no overrides.
Init ==
    /\ grace = DefaultGrace
    /\ deadline = ProgressDeadline(DefaultGrace, Nil)

\* A render with Installation.Spec.TyphaDeployment unset.
RenderDefault ==
    /\ grace' = DefaultGrace
    /\ deadline' = ProgressDeadline(DefaultGrace, Nil)

\* A render whose overrides set the termination grace period to g.
RenderOverride(g) ==
    /\ grace' = g
    /\ deadline' = ProgressDeadline(g, Nil)

Next == RenderDefault \/ \E g \in Graces : RenderOverride(g)

Spec == Init /\ [][Next]_vars

TypeOK ==
    /\ grace \in Graces \cup {DefaultGrace}
    /\ deadline \in Int

(***************************************************************************)
(* The comment at the fix-up: when the grace period is set very high, the  *)
(* progress deadline "takes account of that".  Stated with exact integer   *)
(* arithmetic: the rendered deadline is at least 600 seconds and at least  *)
(* 120% of the grace period, so that a Typha rollout in which pods take    *)
(* the whole grace period to stop is not reported as failed.               *)
(***************************************************************************)
DeadlineCoversGrace ==
    /\ deadline >= 600
    /\ deadline * 100 >= grace * 120 - 99
=============================================================================
