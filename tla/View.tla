-------------------------------- MODULE View --------------------------------
(***************************************************************************)
(* Zoom and pan of the spectrum and the waterfall: DisplayRange of         *)
(* client/src/ui/mod.rs, the buttons that move it and the bins that are    *)
(* drawn of it (ui/spectrum.rs).  A view is what the two atomics hold:     *)
(* tenths of zoom and thousandths of the span of pan.  The code computes   *)
(* in f64 and truncates what it stores; here fractions are compared after  *)
(* multiplying by 1000 * zoom, so nothing is rounded but what the code     *)
(* rounds.                                                                 *)
(***************************************************************************)
EXTENDS Integers

CONSTANTS
  ZoomMax,  \* largest zoom, in tenths (40)
  Bins,     \* bins of a frame
  MaxKnobs  \* bound: buttons pressed in a row

ASSUME ViewAssumption == ZoomMax \in Nat /\ ZoomMax > 9 /\ Bins \in Nat \ {0} /\ MaxKnobs \in Nat

ZoomMin  == 10
ZoomStep == 5

Least(a, b)    == IF a < b THEN a ELSE b
Greatest(a, b) == IF a < b THEN b ELSE a

\* x / y rounded towards zero, y > 0.
Trunc(x, y) == IF x >= 0 THEN x \div y ELSE -((-x) \div y)

\* 0.5 - 0.5 / (z / 10), in units of 1 / (1000 * z).
MaxPan(z) == 500 * (z - 10)

\* MUTANT of Clamped: zooming out does not bring the window back.
ClampedMutant(p, z) == p

\* clamp_pan leaves a pan that is off by at most 0.0001.
Clamped(p, z) ==
  LET over == (IF p < 0 THEN -p ELSE p) * z - MaxPan(z) IN
    IF 10 * over <= z THEN p
    ELSE IF p > 0 THEN Trunc(MaxPan(z), z) ELSE -Trunc(MaxPan(z), z)

Moved(z, p) == [zoom |-> z, pan |-> Clamped(p, z)]

ZoomIn(v)  == Moved(Least(v.zoom + ZoomStep, ZoomMax), v.pan)
ZoomOut(v) == Moved(Greatest(v.zoom - ZoomStep, ZoomMin), v.pan)

\* A tenth of the visible width to either side: (pan + 100 / (z / 10))
\* thousandths, of which rounding in f64 may lose one that is whole.
PanBy(v, sign) ==
  LET p == v.pan * v.zoom + sign * 1000 IN
    {Moved(v.zoom, Trunc(IF p > 0 THEN p - lost ELSE p + lost, v.zoom)) : lost \in {0, 1}}

\* The views n buttons lead to.
Views[n \in 0..MaxKnobs] ==
  IF n = 0 THEN {[zoom |-> ZoomMin, pan |-> 0]}
  ELSE UNION {{v, ZoomIn(v), ZoomOut(v)} \cup PanBy(v, 1) \cup PanBy(v, -1) : v \in Views[n - 1]}

\* The bins the spectrum draws: one beyond the window on either side.
BinLow(lo, scale)  == Greatest((lo * Bins) \div scale - 1, 0)
BinHigh(hi, scale) == Least((hi * Bins) \div scale + 2, Bins)

\* The window of v is within the span (to the 0.0001 clamp_pan tolerates), so
\* that visible_range's own clamp never narrows it, and the bins drawn reach
\* both its edges.
Whole(v) ==
  LET scale == 1000 * v.zoom
      lo == scale \div 2 + v.pan * v.zoom - 5000
      hi == scale \div 2 + v.pan * v.zoom + 5000
      low == BinLow(Greatest(lo, 0), scale)
      high == BinHigh(Least(hi, scale), scale) IN
    /\ 10 * lo >= -v.zoom /\ 10 * (hi - scale) <= v.zoom
    /\ low * scale <= Greatest(lo, 0) * Bins
    /\ high = Bins \/ (high - 1) * scale >= hi * Bins

AllWhole == \A v \in Views[MaxKnobs] : Whole(v)
=============================================================================
