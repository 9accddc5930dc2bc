------------------------------ MODULE Percentile ------------------------------
(***************************************************************************)
(* percentile of cmd/loadtest/stats.go: the nearest rank of p in n sorted  *)
(* values, computed in floating point.  Percentages are in tenths here:    *)
(* 999 is 99.9, so p of n is p * n / 1000.                                 *)
(***************************************************************************)
EXTENDS Integers, FiniteSets

\* The least integer that is not below a / b.
CeilDiv(a, b) == (a + b - 1) \div b

\* The percentages in use (summary.go:109-112, timing.go:184, 257), and the most values a
\* phase may have here: for these the floating-point product is described.
InUse   == {25, 500, 950, 975, 990, 999}
Largest == 2^30

\* math.Ceil is given more than p * n / 1000 where that is a whole number.  Of the
\* percentages in use only 99.9 / 100 comes out far enough above 0.999, by 124/125 of
\* 2^-53, and n times that rounds to the next double when it is more than half a unit in
\* the last place of the product.
RoundsUp(p, n) ==
    LET whole == (p * n) \div 1000 IN
    /\ p = 999 /\ (p * n) % 1000 = 0
    /\ \E k \in 0 .. 29 : 2^k <= whole /\ whole < 2^(k + 1) /\ 124 * n > 125 * 2^k

Clamp(r, n) == IF r < 1 THEN 1 ELSE IF r > n THEN n ELSE r

\* Faulty variant: a floor index, which the comment at stats.go:213 warns of.
RankByFloor(p, n) == Clamp((p * n) \div 1000 + 1, n)

\* The place, from 1, of the value percentile returns.
Rank(p, n) == Clamp(CeilDiv(p * n, 1000) + (IF RoundsUp(p, n) THEN 1 ELSE 0), n)

\* The value at a place of the sorted slice: fewer values than that are below it, and at
\* least as many are not above it.
AtPlace(values, place) ==
    CHOOSE v \in {values[i] : i \in DOMAIN values} :
        /\ Cardinality({i \in DOMAIN values : values[i] < v}) < place
        /\ Cardinality({i \in DOMAIN values : values[i] <= v}) >= place

percentile(values, p) ==
    IF DOMAIN values = {} THEN 0 ELSE AtPlace(values, Rank(p, Cardinality(DOMAIN values)))

-----------------------------------------------------------------------------
\* "The smallest value whose rank is at or above p% of the set" (stats.go:213).
IsNearestRank(r, p, n) == r \in 1 .. n /\ 1000 * r >= p * n /\ 1000 * (r - 1) < p * n

\* For 99.9 of a multiple of 1000 the rank may be the next one.
NearestOrNext(p, n) ==
    \/ IsNearestRank(Rank(p, n), p, n)
    \/ p = 999 /\ n % 1000 = 0 /\ IsNearestRank(Rank(p, n) - 1, p, n)
=============================================================================
