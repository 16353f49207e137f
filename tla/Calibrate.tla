----------------------------- MODULE Calibrate -----------------------------
(***************************************************************************)
(* The three-point calibration of lpc2478_lcd_cursor/drivers/calibrate.c   *)
(* as operators on points.  The integers of the code are 64 bits wide and  *)
(* its samples 13, so none of its products can overflow.                   *)
(***************************************************************************)
EXTENDS Integers

Point == [x : Int, y : Int]

(* Integer division of C: the quotient is truncated towards zero. *)
CDiv(a, b) ==
  LET m(n) == IF n < 0 THEN -n ELSE n
      q == m(a) \div m(b)
  IN  IF (a < 0) = (b < 0) THEN q ELSE -q

(***************************************************************************)
(* Twice the signed area of the triangle of the three samples, the common  *)
(* denominator of the matrix: 0 if the samples are on one line.            *)
(***************************************************************************)
Divider(s1, s2, s3) ==
  (s1.x - s3.x) * (s2.y - s3.y) - (s2.x - s3.x) * (s1.y - s3.y)

(***************************************************************************)
(* One row of the matrix, as setCalibrationMatrix computes it: the values  *)
(* d1, d2 and d3 are the x or the y coordinates of the display points.     *)
(***************************************************************************)
RowX(d1, d2, d3, s1, s2, s3) ==
  (d1 - d3) * (s2.y - s3.y) - (d2 - d3) * (s1.y - s3.y)
RowY(d1, d2, d3, s1, s2, s3) ==
  (s1.x - s3.x) * (d2 - d3) - (d1 - d3) * (s2.x - s3.x)

(* Mutant: the constant term with two of its products exchanged. *)
RowCSwapped(d1, d2, d3, s1, s2, s3) ==
  (s3.x * d2 - s2.x * d3) * s2.y
    + (s1.x * d3 - s3.x * d1) * s1.y
    + (s2.x * d1 - s1.x * d2) * s3.y

RowC(d1, d2, d3, s1, s2, s3) ==
  (s3.x * d2 - s2.x * d3) * s1.y
    + (s1.x * d3 - s3.x * d1) * s2.y
    + (s2.x * d1 - s1.x * d2) * s3.y

(* The six numerators of the matrix for three display points and samples. *)
Rows(d1, d2, d3, s1, s2, s3) ==
  [An |-> RowX(d1.x, d2.x, d3.x, s1, s2, s3),
   Bn |-> RowY(d1.x, d2.x, d3.x, s1, s2, s3),
   Cn |-> RowC(d1.x, d2.x, d3.x, s1, s2, s3),
   Dn |-> RowX(d1.y, d2.y, d3.y, s1, s2, s3),
   En |-> RowY(d1.y, d2.y, d3.y, s1, s2, s3),
   Fn |-> RowC(d1.y, d2.y, d3.y, s1, s2, s3)]

(***************************************************************************)
(* setCalibrationMatrix: the divider is stored in any case, the numerators *)
(* only if it is not 0.                                                    *)
(***************************************************************************)
setCalibrationMatrix(matrix, d1, d2, d3, s1, s2, s3) ==
  LET div == Divider(s1, s2, s3)
  IN  [rows |-> IF div = 0 THEN matrix.rows ELSE Rows(d1, d2, d3, s1, s2, s3),
       Divider |-> div]

(* getDisplayPoint, for a matrix whose divider is not 0. *)
getDisplayPoint(s, matrix) ==
  LET r == matrix.rows
  IN  [x |-> CDiv(r.An * s.x + r.Bn * s.y + r.Cn, matrix.Divider),
       y |-> CDiv(r.Dn * s.x + r.En * s.y + r.Fn, matrix.Divider)]
============================================================================
