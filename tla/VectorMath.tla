----------------------------- MODULE VectorMath ------------------------------
(***************************************************************************)
(* The similarity and distance functions of                                *)
(* src/src/storage/vector_storage.c, in floating point.                    *)
(*                                                                         *)
(* A binary format with few bits stands for float: Precision significand   *)
(* bits, a greatest exponent MaxExp, gradual underflow, infinities and     *)
(* not-a-number, rounding to nearest, ties to even.  Its exponent range is *)
(* laid out as that of IEEE 754, so that products of small numbers vanish, *)
(* squares of large ones overflow and sums are rounded as in float.  A     *)
(* finite number is an integer multiple of the least positive number.      *)
(***************************************************************************)
EXTENDS Integers

CONSTANTS
    Precision,   \* bits of the significand (24 in float)
    MaxExp,      \* greatest exponent (127 in float)
    Dimension,   \* number of components of a vector
    Components   \* the numbers of which vectors are made

\* The exponent range of an IEEE 754 format is 2^(w-1) - 1 for an exponent field
\* of w bits, which is odd.
ASSUME FormatAssumption ==
    /\ Precision \in Nat \ {0, 1, 2}
    /\ MaxExp \in Nat
    /\ MaxExp % 2 = 1
    /\ Dimension \in Nat

VARIABLES
    vec1, vec2,  \* the arguments
    fn,          \* the function that returned last
    result       \* and what it returned

vectorVars == <<vec1, vec2, fn, result>>

-----------------------------------------------------------------------------
(* The number format *)

Pow2[n \in Nat] == IF n = 0 THEN 1 ELSE 2 * Pow2[n - 1]

\* The least positive number is 2^-Scale; One is the number 1.
Scale == MaxExp + Precision - 2
One == Pow2[Scale]
MaxFinite == (Pow2[Precision] - 1) * Pow2[MaxExp + Scale - Precision + 1]

Inf == MaxFinite + 1
NaN == MaxFinite + 2
Finite(x) == -MaxFinite <= x /\ x <= MaxFinite

Abs(x) == IF x < 0 THEN -x ELSE x
fabsf(x) == IF x = NaN THEN NaN ELSE Abs(x)

\* The exponent of the spacing of numbers in the binade of k.
Spacing(k) ==
    CHOOSE j \in 0 .. k :
        /\ k < Pow2[Precision + j]
        /\ j > 0 => Pow2[Precision + j - 1] <= k

\* The finite numbers of the format.
Numbers == {x \in -MaxFinite .. MaxFinite : Abs(x) % Pow2[Spacing(Abs(x))] = 0}

\* No argument is infinite or not-a-number.
ASSUME ComponentsAssumption == Components \subseteq Numbers

Overflow(k) == IF k > MaxFinite THEN Inf ELSE k

\* The number nearest to n / d, for n >= 0 and d > 0.
RoundRatio(n, d) ==
    LET step == Pow2[Spacing(n \div d)]
        q == n \div (d * step)
        rest == 2 * (n - q * d * step)
        up == rest > d * step \/ (rest = d * step /\ q % 2 = 1)
    IN  Overflow((IF up THEN q + 1 ELSE q) * step)

\* The square root of m without its fraction.
FloorRoot(m) == CHOOSE r \in 0 .. m : r * r <= m /\ m < (r + 1) * (r + 1)

\* The number nearest to the square root of m.
RoundRoot(m) ==
    LET k == FloorRoot(m)
        step == Pow2[Spacing(k)]
        q == k \div step
        middle == (2 * q + 1) * step
    IN  Overflow((IF 4 * m > middle * middle THEN q + 1 ELSE q) * step)

Signed(negative, x) == IF negative THEN -x ELSE x

Add(x, y) ==
    IF x = NaN \/ y = NaN \/ (Abs(x) = Inf /\ y = -x) THEN NaN
    ELSE IF Abs(x) = Inf THEN x
    ELSE IF Abs(y) = Inf THEN y
    ELSE Signed(x + y < 0, RoundRatio(Abs(x + y), 1))

Neg(x) == IF x = NaN THEN NaN ELSE -x
Sub(x, y) == Add(x, Neg(y))

Mul(x, y) ==
    IF x = NaN \/ y = NaN THEN NaN
    ELSE IF Abs(x) = Inf \/ Abs(y) = Inf
         THEN IF x = 0 \/ y = 0 THEN NaN ELSE Signed((x < 0) # (y < 0), Inf)
    ELSE Signed((x < 0) # (y < 0), RoundRatio(Abs(x) * Abs(y), One))

Div(x, y) ==
    IF x = NaN \/ y = NaN \/ (Abs(x) = Inf /\ Abs(y) = Inf)
       \/ (x = 0 /\ y = 0) THEN NaN
    ELSE IF Abs(x) = Inf \/ y = 0 THEN Signed((x < 0) # (y < 0), Inf)
    ELSE IF Abs(y) = Inf THEN 0
    ELSE Signed((x < 0) # (y < 0), RoundRatio(Abs(x) * One, Abs(y)))

sqrtf(x) ==
    IF x = NaN \/ x < 0 THEN NaN
    ELSE IF x = Inf THEN Inf
    ELSE RoundRoot(x * One)

-----------------------------------------------------------------------------
(* The functions *)

Vectors == [1 .. Dimension -> Components]

\* A loop over the components that adds a term for each to a sum.
LoopSum(terms) ==
    LET sum[i \in 0 .. Dimension] ==
            IF i = 0 THEN 0 ELSE Add(sum[i - 1], terms[i])
    IN  sum[Dimension]

Dot(u, v) == LoopSum([i \in 1 .. Dimension |-> Mul(u[i], v[i])])

\* Mutant of Denominator: the root of the first norm, twice.
SameRoot(norm1, norm2) == Mul(sqrtf(norm1), sqrtf(norm1))

\* Mutant of Denominator: one square root of the product of the norms.
OneRoot(norm1, norm2) == sqrtf(Mul(norm1, norm2))

Denominator(norm1, norm2) == Mul(sqrtf(norm1), sqrtf(norm2))

\* Mutant: the norms are not looked at.
CosineUnchecked(u, v) == Div(Dot(u, v), Denominator(Dot(u, u), Dot(v, v)))

vector_cosine_similarity(u, v) ==
    IF Dot(u, u) = 0 \/ Dot(v, v) = 0
    THEN 0
    ELSE Div(Dot(u, v), Denominator(Dot(u, u), Dot(v, v)))

vector_euclidean_distance(u, v) ==
    sqrtf(LoopSum([i \in 1 .. Dimension |->
                     Mul(Sub(u[i], v[i]), Sub(u[i], v[i]))]))

\* Mutant: abs in place of fabsf, which cuts its argument to an integer.
IntegerAbs(u, v) ==
    LoopSum([i \in 1 .. Dimension |-> (fabsf(Sub(u[i], v[i])) \div One) * One])

vector_manhattan_distance(u, v) ==
    LoopSum([i \in 1 .. Dimension |-> fabsf(Sub(u[i], v[i]))])

-----------------------------------------------------------------------------
(* Calls *)

VectorInit ==
    /\ vec1 \in Vectors
    /\ vec2 \in Vectors
    /\ fn = "none"
    /\ result = 0

Return(name, x) ==
    /\ fn = "none"
    /\ fn' = name
    /\ result' = x
    /\ UNCHANGED <<vec1, vec2>>

Cosine == Return("cosine", vector_cosine_similarity(vec1, vec2))
Euclidean == Return("euclidean", vector_euclidean_distance(vec1, vec2))
Manhattan == Return("manhattan", vector_manhattan_distance(vec1, vec2))

VectorNext == Cosine \/ Euclidean \/ Manhattan

VectorSpec == VectorInit /\ [][VectorNext]_vectorVars

-----------------------------------------------------------------------------
(* Properties *)

\* Neither norm is zero and both are finite: then the denominator of the cosine
\* is neither zero nor infinite, however small or large the norms are.  This is
\* why vector_cosine_similarity takes two square roots and multiplies them.
DenominatorSound ==
    LET norm1 == Dot(vec1, vec1)
        norm2 == Dot(vec2, vec2)
    IN  (norm1 \in 1 .. MaxFinite /\ norm2 \in 1 .. MaxFinite) =>
            Denominator(norm1, norm2) \in 1 .. MaxFinite

\* Results are numbers of the format, distances are not negative, and a cosine
\* is not-a-number only if a square or a sum of squares overflowed.
ResultsDefined ==
    /\ result \in -Inf .. NaN
    /\ fn \in {"euclidean", "manhattan"} => result >= 0
    /\ (fn = "cosine" /\ result = NaN) =>
           Dot(vec1, vec1) = Inf \/ Dot(vec2, vec2) = Inf

\* Vectors at Manhattan distance zero are equal: differences do not vanish,
\* thanks to gradual underflow.
ManhattanSeparates ==
    (fn = "manhattan" /\ result = 0) => vec1 = vec2

\* In two dimensions a similarity is at most 2, whatever the scales of the two
\* vectors: the result is normalised.  It may exceed 1, up to 2, since squares
\* that are small are rounded to the least numbers or to zero.
CosineBounded ==
    (Dimension <= 2 /\ fn = "cosine" /\ Finite(result)) => Abs(result) <= 2 * One
=============================================================================
