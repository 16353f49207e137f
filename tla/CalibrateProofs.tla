-------------------------- MODULE CalibrateProofs --------------------------
(***************************************************************************)
(* The calibration is exact at the three points it is computed from, for   *)
(* every choice of display points and every three samples that are not on  *)
(* one line.                                                               *)
(***************************************************************************)
EXTENDS Calibrate, TLAPS

(* A division without remainder is exact, whatever the signs. *)
LEMMA CDivExact ==
  ASSUME NEW q \in Int, NEW b \in Int, b # 0
  PROVE  CDiv(q * b, b) = q
BY DEF CDiv

(***************************************************************************)
(* touch_xyz returns the reference point for a sample that was taken for   *)
(* it: getDisplayPoint inverts setCalibrationMatrix at all three samples   *)
(* with no rounding, if they are not on one line.                          *)
(***************************************************************************)
THEOREM CalibrationExact ==
  ASSUME NEW m,
         NEW d1 \in Point, NEW d2 \in Point, NEW d3 \in Point,
         NEW s1 \in Point, NEW s2 \in Point, NEW s3 \in Point,
         Divider(s1, s2, s3) # 0
  PROVE  LET matrix == setCalibrationMatrix(m, d1, d2, d3, s1, s2, s3)
         IN  /\ getDisplayPoint(s1, matrix) = d1
             /\ getDisplayPoint(s2, matrix) = d2
             /\ getDisplayPoint(s3, matrix) = d3
<1> DEFINE v == Divider(s1, s2, s3)
           rows == Rows(d1, d2, d3, s1, s2, s3)
           matrix == setCalibrationMatrix(m, d1, d2, d3, s1, s2, s3)
<1>1. v \in Int /\ v # 0
  BY DEF Divider, Point
<1>2. matrix.rows = rows /\ matrix.Divider = v
  BY <1>1 DEF setCalibrationMatrix
<1>3. /\ rows.An * s1.x + rows.Bn * s1.y + rows.Cn = d1.x * v
      /\ rows.An * s2.x + rows.Bn * s2.y + rows.Cn = d2.x * v
      /\ rows.An * s3.x + rows.Bn * s3.y + rows.Cn = d3.x * v
  <2> DEFINE a == RowX(d1.x, d2.x, d3.x, s1, s2, s3)
             b == RowY(d1.x, d2.x, d3.x, s1, s2, s3)
             c == RowC(d1.x, d2.x, d3.x, s1, s2, s3)
  <2>1. d1.x \in Int /\ d2.x \in Int /\ d3.x \in Int
    BY DEF Point
  <2>2. /\ a * s1.x + b * s1.y + c = d1.x * v
        /\ a * s2.x + b * s2.y + c = d2.x * v
        /\ a * s3.x + b * s3.y + c = d3.x * v
    BY <2>1 DEF RowX, RowY, RowC, Divider, Point
  <2>3. rows.An = a /\ rows.Bn = b /\ rows.Cn = c
    BY DEF Rows
  <2> HIDE DEF a, b, c, rows, v
  <2>4. QED  BY <2>2, <2>3
<1>4. /\ rows.Dn * s1.x + rows.En * s1.y + rows.Fn = d1.y * v
      /\ rows.Dn * s2.x + rows.En * s2.y + rows.Fn = d2.y * v
      /\ rows.Dn * s3.x + rows.En * s3.y + rows.Fn = d3.y * v
  <2> DEFINE a == RowX(d1.y, d2.y, d3.y, s1, s2, s3)
             b == RowY(d1.y, d2.y, d3.y, s1, s2, s3)
             c == RowC(d1.y, d2.y, d3.y, s1, s2, s3)
  <2>1. d1.y \in Int /\ d2.y \in Int /\ d3.y \in Int
    BY DEF Point
  <2>2. /\ a * s1.x + b * s1.y + c = d1.y * v
        /\ a * s2.x + b * s2.y + c = d2.y * v
        /\ a * s3.x + b * s3.y + c = d3.y * v
    BY <2>1 DEF RowX, RowY, RowC, Divider, Point
  <2>3. rows.Dn = a /\ rows.En = b /\ rows.Fn = c
    BY DEF Rows
  <2> HIDE DEF a, b, c, rows, v
  <2>4. QED  BY <2>2, <2>3
<1>5. \A d \in Point : [x |-> CDiv(d.x * v, v), y |-> CDiv(d.y * v, v)] = d
  <2>1. \A d \in Point : CDiv(d.x * v, v) = d.x /\ CDiv(d.y * v, v) = d.y
    BY <1>1, CDivExact DEF Point
  <2>2. QED  BY <2>1 DEF Point
<1>6. /\ getDisplayPoint(s1, matrix) = [x |-> CDiv(d1.x * v, v), y |-> CDiv(d1.y * v, v)]
      /\ getDisplayPoint(s2, matrix) = [x |-> CDiv(d2.x * v, v), y |-> CDiv(d2.y * v, v)]
      /\ getDisplayPoint(s3, matrix) = [x |-> CDiv(d3.x * v, v), y |-> CDiv(d3.y * v, v)]
  BY <1>2, <1>3, <1>4 DEF getDisplayPoint
<1>7. QED  BY <1>5, <1>6
============================================================================
