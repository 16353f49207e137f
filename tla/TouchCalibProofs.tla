-------------------------- MODULE TouchCalibProofs --------------------------
(***************************************************************************)
(* OnePointPerTouch for every set of coordinates and any number of         *)
(* touches.  The argument: a release is only seen with the finger up, or   *)
(* in a sample during which it came down, and then the touch is newer than *)
(* any point stored; so it is if touchReleased is set and a finger is      *)
(* down.  Behind it, the types, and that the cursor comes to lie under the *)
(* finger: a steady sample is the place of the touch, so the points the    *)
(* matrix is made of are the places of the three touches, and              *)
(* CalibrationExact does the rest.                                         *)
(***************************************************************************)
EXTENDS TouchCalib, CalibrateProofs

(* The part of the state the argument is about. *)
CountersOK == touchNo \in Nat /\ calibPoint \in 0 .. 3 /\ owner \in [Box -> Nat]
FlagsOK ==
  /\ down \in BOOLEAN /\ torn \in BOOLEAN
  /\ releaseNeeded \in BOOLEAN /\ touchReleased \in BOOLEAN

(* Before the last point is stored there is room for one more. *)
RoomForPoint == caller # "lcd_test" => calibPoint <= 2

(* Every stored point but those before the first waits for a release. *)
WaitsForRelease == calibPoint > 0 => releaseNeeded

(* No point belongs to a touch that is yet to come. *)
OwnersPast == \A i \in 1 .. calibPoint : owner[i] <= touchNo

(* No point belongs to the current touch. *)
OwnersOlder == \A i \in 1 .. calibPoint : owner[i] < touchNo

(* A finger that came down during the sample, or after a release was seen, *)
(* is a new touch.                                                         *)
TouchIsNew == calibPoint > 0 /\ down /\ (torn \/ touchReleased) => OwnersOlder

TouchInv ==
  /\ CountersOK /\ FlagsOK /\ RoomForPoint /\ WaitsForRelease /\ OwnersPast
  /\ TouchIsNew /\ OnePointPerTouch

(* Nothing is stored at the start: the state before calibrateStart is fine. *)
LEMMA TouchInit == Init => TouchInv
<1> SUFFICES ASSUME Init PROVE TouchInv
  OBVIOUS
<1>1. /\ down = FALSE /\ torn = FALSE /\ touchNo = 0
      /\ calibPoint = 0 /\ releaseNeeded = FALSE /\ touchReleased = FALSE
      /\ owner = [k \in Box |-> 0]
  BY DEF Init
<1>2. FlagsOK
  BY <1>1 DEF FlagsOK
<1>3. CountersOK /\ RoomForPoint /\ OwnersPast /\ OnePointPerTouch
  BY <1>1 DEF CountersOK, RoomForPoint, OwnersPast, OnePointPerTouch
<1>4. WaitsForRelease /\ TouchIsNew
  BY <1>1 DEF WaitsForRelease, TouchIsNew
<1> QED
  BY <1>2, <1>3, <1>4 DEF TouchInv

(* The finger: a press starts a touch with a number of its own. *)
LEMMA FingerKeeps ==
  ASSUME TouchInv, (\E p \in Sample : Press(p)) \/ Lift
  PROVE  TouchInv'
<1> USE DEF TouchInv
<1>1. /\ \/ down' = TRUE /\ touchNo' = touchNo + 1
         \/ down' = FALSE /\ touchNo' = touchNo
      /\ torn' = Sampling
      /\ UNCHANGED <<caller, calibPoint, releaseNeeded, touchReleased, owner>>
  BY DEF Press, Lift, calibVars, histVars
<1>2. CountersOK' /\ touchNo' >= touchNo
  BY <1>1 DEF CountersOK
<1>3. FlagsOK'
  <2>1. down' \in BOOLEAN /\ releaseNeeded' \in BOOLEAN /\ touchReleased' \in BOOLEAN
    BY <1>1 DEF FlagsOK
  <2>2. torn' = (pc \in {"y", "z1", "z2"})
    BY <1>1 DEF Sampling
  <2>3. torn' \in BOOLEAN
    BY <2>2
  <2> QED
    BY <2>1, <2>3, Zenon DEF FlagsOK
<1>4. RoomForPoint' /\ WaitsForRelease' /\ OnePointPerTouch'
  BY <1>1 DEF RoomForPoint, WaitsForRelease, OnePointPerTouch
<1>5. OwnersPast'
  BY <1>1, <1>2 DEF OwnersPast, CountersOK, Box
<1>6. TouchIsNew'
  <2>1. touchNo' = touchNo + 1 => OwnersOlder'
    BY <1>1 DEF OwnersPast, OwnersOlder, CountersOK, Box
  <2> QED
    BY <1>1, <2>1 DEF TouchIsNew
<1> QED
  BY <1>2, <1>3, <1>4, <1>5, <1>6

(* The readings before the last one change neither finger nor points. *)
LEMMA ReadingKeeps ==
  ASSUME TouchInv, ReadX \/ ReadY \/ ReadZ1
  PROVE  TouchInv'
<1>1. UNCHANGED <<down, torn, touchNo, caller, calibPoint, releaseNeeded, touchReleased, owner>>
  BY DEF ReadX, ReadY, ReadZ1, fingerVars, calibVars, histVars
<1> QED
  BY <1>1 DEF TouchInv, CountersOK, FlagsOK, RoomForPoint, WaitsForRelease, OwnersPast,
         OwnersOlder, TouchIsNew, OnePointPerTouch

(* The ends of a sample that store nothing. *)
LEMMA SampleKeeps ==
  ASSUME TouchInv, FirstSample \/ SeeRelease \/ Ignore \/ lcd_test
  PROVE  TouchInv'
<1> USE DEF TouchInv
<1>1. /\ UNCHANGED <<down, touchNo, calibPoint, releaseNeeded, owner>>
      /\ torn' = FALSE
      /\ caller' = caller \/ caller = "first"
      /\ touchReleased' = touchReleased \/ (touchReleased' = TRUE /\ SeeRelease)
  BY DEF FirstSample, SeeRelease, Ignore, lcd_test, NextSample, fingerVars, calibVars, histVars
<1>2. CountersOK' /\ RoomForPoint' /\ WaitsForRelease' /\ OwnersPast' /\ OnePointPerTouch'
  BY <1>1 DEF CountersOK, RoomForPoint, WaitsForRelease, OwnersPast, OnePointPerTouch
<1>3. FlagsOK'
  BY <1>1 DEF FlagsOK
<1>4. TouchIsNew'
  \* A release is seen with the finger up, or down since the sample began.
  <2>1. SeeRelease /\ down => torn
    BY DEF SeeRelease, Touched, FlagsOK
  <2>2. SeeRelease /\ calibPoint > 0 /\ down => OwnersOlder
    BY <2>1 DEF TouchIsNew
  <2>3. OwnersOlder => OwnersOlder'
    BY <1>1 DEF OwnersOlder
  <2> QED
    BY <1>1, <2>2, <2>3 DEF TouchIsNew
<1> QED
  BY <1>2, <1>3, <1>4

(* calibrateStart forgets the points of an earlier calibration. *)
LEMMA StartKeeps ==
  ASSUME TouchInv, calibrateStart
  PROVE  TouchInv'
<1> USE DEF TouchInv
<1>1. /\ releaseNeeded' = FALSE /\ calibPoint' = 0
      /\ UNCHANGED <<down, torn, touchNo, caller, touchReleased, owner>>
  BY DEF calibrateStart, fingerVars, sampleVars, histVars
<1>2. CountersOK' /\ RoomForPoint' /\ WaitsForRelease' /\ OwnersPast' /\ OnePointPerTouch'
  BY <1>1 DEF CountersOK, RoomForPoint, WaitsForRelease, OwnersPast, OnePointPerTouch
<1>3. FlagsOK'
  BY <1>1 DEF FlagsOK
<1>4. TouchIsNew'
  BY <1>1 DEF TouchIsNew
<1> QED
  BY <1>2, <1>3, <1>4

(* A point stored with a finger down belongs to a touch no other point has. *)
LEMMA StoreKeeps ==
  ASSUME TouchInv, Store
  PROVE  TouchInv'
<1> USE DEF TouchInv
<1>1. /\ caller = "loop" /\ ~Held
      /\ touchReleased' = FALSE /\ releaseNeeded' = TRUE
      /\ calibPoint' = calibPoint + 1
      /\ owner' = [owner EXCEPT ![calibPoint + 1] = IF down THEN touchNo ELSE 0]
      /\ torn' = FALSE
      /\ UNCHANGED <<down, touchNo>>
      /\ caller' = IF calibPoint = 2 THEN "lcd_test" ELSE caller
  BY DEF Store, NextSample, fingerVars
<1>2. calibPoint \in 0 .. 2
  BY <1>1 DEF RoomForPoint, CountersOK
<1>3. down => OwnersOlder
  <2>1. CASE calibPoint > 0
    <3>1. touchReleased
      BY <1>1, <2>1 DEF Held, WaitsForRelease, FlagsOK
    <3> QED
      BY <2>1, <3>1 DEF TouchIsNew
  <2>2. CASE calibPoint = 0
    BY <2>2 DEF OwnersOlder
  <2> QED
    BY <1>2, <2>1, <2>2
<1>4. CountersOK'
  BY <1>1, <1>2 DEF CountersOK, Box
<1>5. FlagsOK'
  BY <1>1 DEF FlagsOK
<1>6. RoomForPoint'
  BY <1>1, <1>2 DEF RoomForPoint
<1>7. WaitsForRelease' /\ TouchIsNew'
  BY <1>1 DEF WaitsForRelease, TouchIsNew
<1>8. OwnersPast'
  BY <1>1, <1>2 DEF OwnersPast, CountersOK, Box
<1>9. OnePointPerTouch'
  <2>1. CASE down
    BY <1>1, <1>2, <1>3, <2>1 DEF OwnersOlder, OnePointPerTouch, CountersOK, Box
  <2>2. CASE ~down
    BY <1>1, <1>2, <2>2 DEF OnePointPerTouch, CountersOK, Box
  <2> QED
    BY <2>1, <2>2
<1> QED
  BY <1>4, <1>5, <1>6, <1>7, <1>8, <1>9

(* Every step of finger, driver and application preserves the invariant. *)
LEMMA TouchStep == TouchInv /\ [Next]_vars => TouchInv'
<1> SUFFICES ASSUME TouchInv, [Next]_vars PROVE TouchInv'
  OBVIOUS
<1>1. CASE UNCHANGED vars
  BY <1>1 DEF vars, fingerVars, sampleVars, calibVars, histVars, TouchInv, CountersOK,
         FlagsOK, RoomForPoint, WaitsForRelease, OwnersPast, OwnersOlder, TouchIsNew,
         OnePointPerTouch
<1>2. CASE Next
  BY <1>2, FingerKeeps, ReadingKeeps, SampleKeeps, StartKeeps, StoreKeeps DEF Next
<1> QED
  BY <1>1, <1>2

(***************************************************************************)
(* No touch supplies two of the points of calibrateStart, whatever the     *)
(* pressure formula makes of an untouched panel and whenever the finger    *)
(* comes or goes.                                                          *)
(***************************************************************************)
THEOREM TouchGivesOnePoint == Spec => []OnePointPerTouch
<1>1. TouchInv => OnePointPerTouch
  BY DEF TouchInv
<1> QED
  BY <1>1, TouchInit, TouchStep, PTL DEF Spec
----------------------------------------------------------------------------
(***************************************************************************)
(* Types.  What has been read of a sample is a coordinate of the panel,    *)
(* and touch_xyz returns it unconverted as long as points are collected.   *)
(***************************************************************************)
Matrix == [rows : [An : Int, Bn : Int, Cn : Int, Dn : Int, En : Int, Fn : Int], Divider : Int]

(* The three phases of the application and the flag of touch.c agree. *)
PhaseOK ==
  /\ caller = "lcd_test" => calibrated /\ calibPoint = 3
  /\ caller # "lcd_test" => ~calibrated /\ calibPoint <= 2
  /\ pc = "start" => caller = "first"

(* The coordinates that have been read. *)
ReadOK ==
  /\ down => at \in Sample
  /\ Sampling => raw.x \in Coord
  /\ pc \in {"z1", "z2"} => raw.y \in Coord

TypeInv == TypeOK /\ matrix \in Matrix /\ PhaseOK /\ ReadOK

(* A sample of the panel is a point. *)
LEMMA SampleIsPoint == Sample \cup {NoPoint} \cup {[x |-> 0, y |-> 0]} \subseteq Point
<1>1. Coord \subseteq Int
  BY PanelAssumption
<1>2. Sample \subseteq Point
  BY <1>1 DEF Sample, Point
<1>3. NoPoint \in Point /\ [x |-> 0, y |-> 0] \in Point
  BY DEF NoPoint, Point
<1> QED
  BY <1>2, <1>3

(* A quotient is an integer. *)
LEMMA CDivInt == ASSUME NEW a \in Int, NEW b \in Int, b # 0 PROVE CDiv(a, b) \in Int
BY DEF CDiv

(* A converted point is a point. *)
LEMMA DisplayIsPoint ==
  ASSUME NEW s \in Point, NEW m \in Matrix, m.Divider # 0
  PROVE  getDisplayPoint(s, m) \in Point
<1> DEFINE r == m.rows
           a == r.An * s.x + r.Bn * s.y + r.Cn
           b == r.Dn * s.x + r.En * s.y + r.Fn
<1>1. a \in Int /\ b \in Int /\ m.Divider \in Int
  BY DEF Matrix, Point
<1>2. CDiv(a, m.Divider) \in Int /\ CDiv(b, m.Divider) \in Int
  BY <1>1, CDivInt
<1> QED
  BY <1>2 DEF getDisplayPoint, Point

(* The six numerators are integers. *)
LEMMA RowsType ==
  ASSUME NEW d1 \in Point, NEW d2 \in Point, NEW d3 \in Point,
         NEW s1 \in Point, NEW s2 \in Point, NEW s3 \in Point
  PROVE  /\ Rows(d1, d2, d3, s1, s2, s3)
              \in [An : Int, Bn : Int, Cn : Int, Dn : Int, En : Int, Fn : Int]
         /\ Divider(s1, s2, s3) \in Int
<1>1. \A e1, e2, e3 \in Int : /\ RowX(e1, e2, e3, s1, s2, s3) \in Int
                              /\ RowY(e1, e2, e3, s1, s2, s3) \in Int
                              /\ RowC(e1, e2, e3, s1, s2, s3) \in Int
  BY DEF RowX, RowY, RowC, Point
<1>2. Divider(s1, s2, s3) \in Int
  BY DEF Divider, Point
<1>3. /\ d1.x \in Int /\ d2.x \in Int /\ d3.x \in Int
      /\ d1.y \in Int /\ d2.y \in Int /\ d3.y \in Int
  BY DEF Point
<1> QED
  BY <1>1, <1>2, <1>3 DEF Rows

(* The calibration matrix is a matrix of integers, whatever was in it. *)
LEMMA MatrixType ==
  ASSUME NEW m \in Matrix, NEW s \in [Box -> Point]
  PROVE  setCalibrationMatrix(m, RefPoint[1], RefPoint[2], RefPoint[3], s[1], s[2], s[3]) \in Matrix
<1>1. RefPoint[1] \in Point /\ RefPoint[2] \in Point /\ RefPoint[3] \in Point
  BY DEF RefPoint, Point
<1>2. s[1] \in Point /\ s[2] \in Point /\ s[3] \in Point
  BY DEF Box
<1>3. /\ Rows(RefPoint[1], RefPoint[2], RefPoint[3], s[1], s[2], s[3])
           \in [An : Int, Bn : Int, Cn : Int, Dn : Int, En : Int, Fn : Int]
      /\ Divider(s[1], s[2], s[3]) \in Int
  BY <1>1, <1>2, RowsType
<1> QED
  BY <1>3 DEF setCalibrationMatrix, Matrix

(* A point that touch_xyz returns is a point. *)
LEMMA ReturnedType ==
  ASSUME TypeInv, pc = "z2"
  PROVE  /\ raw \in Sample
         /\ Returned \subseteq Point
         /\ ~calibrated => Returned = {raw}
<1>1. raw \in Sample
  BY DEF TypeInv, TypeOK, ReadOK, Sampling, Sample
<1>2. raw \in Point /\ Unset \subseteq Point
  BY <1>1, SampleIsPoint DEF Unset
<1>3. matrix.Divider # 0 => getDisplayPoint(raw, matrix) \in Point
  BY <1>2, DisplayIsPoint DEF TypeInv
<1> QED
  BY <1>1, <1>2, <1>3 DEF Returned

(* Nothing is read at the start. *)
LEMMA TypeInit == Init => TypeInv
<1> SUFFICES ASSUME Init PROVE TypeInv
  OBVIOUS
<1>1. matrix \in Matrix /\ matrix.Divider \in Int
  BY DEF Init, Matrix
<1>2. PhaseOK /\ ReadOK
  BY DEF Init, PhaseOK, ReadOK, Sampling
<1>3. /\ at \in Sample \cup {NoPoint} /\ raw \in [x : Coord \cup {-1}, y : Coord \cup {-1}]
      /\ scr \in [Box -> Sample \cup {[x |-> 0, y |-> 0]}]
      /\ place \in [Box -> Sample \cup {NoPoint}]
  BY DEF Init, NoPoint
<1>4. cursor \in Point
  BY SampleIsPoint DEF Init
<1>5. touchNo \in 0 .. MaxTouch /\ calibPoint \in 0 .. 3 /\ owner \in [Box -> 0 .. MaxTouch]
  BY PanelAssumption DEF Init
<1> QED
  BY <1>1, <1>2, <1>3, <1>4, <1>5 DEF Init, TypeInv, TypeOK

(* The finger is at a place the panel can report, or nowhere. *)
LEMMA FingerTypes ==
  ASSUME TypeInv, (\E p \in Sample : Press(p)) \/ Lift
  PROVE  TypeInv'
<1> USE DEF TypeInv
<1>1. /\ UNCHANGED <<pc, caller, raw, calibVars, cursor, histVars>>
      /\ torn' = Sampling
      /\ \/ down' = TRUE /\ at' \in Sample /\ touchNo < MaxTouch /\ touchNo' = touchNo + 1
         \/ down' = FALSE /\ at' = NoPoint /\ touchNo' = touchNo
  BY DEF Press, Lift
<1>2. touchNo' \in 0 .. MaxTouch
  BY <1>1, PanelAssumption DEF TypeOK
<1>3. PhaseOK' /\ ReadOK'
  BY <1>1 DEF PhaseOK, ReadOK, Sampling, calibVars
<1>4. at' \in Sample \cup {NoPoint}
  BY <1>1
<1>5. down' \in BOOLEAN /\ torn' \in BOOLEAN
  <2>1. down' = TRUE \/ down' = FALSE
    BY <1>1
  <2>2. Sampling \in BOOLEAN
    BY DEF Sampling
  <2> QED
    BY <1>1, <2>1, <2>2, Zenon
<1> QED
  BY <1>1, <1>2, <1>3, <1>4, <1>5 DEF TypeOK, calibVars, histVars

(* A reading adds a coordinate to the sample. *)
LEMMA ReadingTypes ==
  ASSUME TypeInv, ReadX \/ ReadY \/ ReadZ1
  PROVE  TypeInv'
<1> USE DEF TypeInv
<1>1. /\ UNCHANGED <<fingerVars, caller, torn, calibVars, cursor, histVars>>
      /\ \/ pc' = "y" /\ \E v \in Reported(at.x) : raw' = [x |-> v, y |-> -1]
         \/ /\ pc = "y" /\ pc' = "z1"
            /\ \E v \in Reported(at.y) : raw' = [raw EXCEPT !.y = v]
         \/ pc = "z1" /\ pc' = "z2" /\ raw' = raw
  BY DEF ReadX, ReadY, ReadZ1
<1>2. Reported(at.x) \subseteq Coord /\ Reported(at.y) \subseteq Coord
  BY DEF Reported, ReadOK, Sample
<1>3. /\ raw' \in [x : Coord \cup {-1}, y : Coord \cup {-1}]
      /\ raw'.x \in Coord
      /\ pc' \in {"z1", "z2"} => raw'.y \in Coord
  BY <1>1, <1>2 DEF TypeOK, ReadOK, Sampling
<1>4. PhaseOK' /\ ReadOK'
  BY <1>1, <1>3 DEF PhaseOK, ReadOK, Sampling, calibVars, fingerVars
<1>5. pc' \in {"start", "x", "y", "z1", "z2"}
  BY <1>1 DEF TypeOK
<1> QED
  BY <1>1, <1>3, <1>4, <1>5 DEF TypeOK, fingerVars, calibVars, histVars

(* The ends of a sample, but for the one that stores it. *)
LEMMA SampleTypes ==
  ASSUME TypeInv, calibrateStart \/ FirstSample \/ SeeRelease \/ Ignore \/ lcd_test
  PROVE  TypeInv'
<1> USE DEF TypeInv
<1>1. /\ UNCHANGED <<fingerVars, scr, calibrated, matrix, histVars>>
      /\ pc' = "x"
      /\ UNCHANGED sampleVars \/ (raw' = NoPoint /\ torn' = FALSE)
      /\ caller' = caller \/ (caller = "first" /\ caller' = "loop")
      /\ calibPoint' = calibPoint \/ (pc = "start" /\ calibPoint' = 0)
      /\ releaseNeeded' \in {releaseNeeded, FALSE} /\ touchReleased' \in {touchReleased, TRUE}
  BY DEF calibrateStart, FirstSample, SeeRelease, Ignore, lcd_test, NextSample, calibVars
<1>2. cursor' \in Point
  <2>1. CASE lcd_test
    <3>1. PICK p \in Returned : cursor' = IF p.x < 0 THEN [p EXCEPT !.y = -1] ELSE p
      BY <2>1 DEF lcd_test
    <3>2. p \in Point
      BY <2>1, ReturnedType DEF lcd_test
    <3> QED
      BY <3>1, <3>2 DEF Point
  <2>2. CASE ~lcd_test
    BY <2>2 DEF calibrateStart, FirstSample, SeeRelease, Ignore, TypeOK
  <2> QED
    BY <2>1, <2>2
<1>3. PhaseOK' /\ ReadOK'
  BY <1>1 DEF PhaseOK, ReadOK, Sampling, fingerVars
<1>4. /\ raw' \in [x : Coord \cup {-1}, y : Coord \cup {-1}]
      /\ caller' \in {"first", "loop", "lcd_test"} /\ calibPoint' \in 0 .. 3
  BY <1>1 DEF TypeOK, NoPoint, sampleVars
<1>5. /\ torn' \in BOOLEAN
      /\ releaseNeeded' \in BOOLEAN /\ touchReleased' \in BOOLEAN
  BY <1>1, Zenon DEF TypeOK, sampleVars
<1> QED
  BY <1>1, <1>2, <1>3, <1>4, <1>5 DEF TypeOK, fingerVars, histVars

(* A stored point is a sample, and with the third one the matrix is set. *)
LEMMA StoreTypes ==
  ASSUME TypeInv, Store
  PROVE  TypeInv'
<1> USE DEF TypeInv
<1>1. /\ pc = "z2" /\ caller = "loop" /\ pc' = "x"
      /\ touchReleased' = FALSE /\ releaseNeeded' = TRUE
      /\ calibPoint' = calibPoint + 1
      /\ owner' = [owner EXCEPT ![calibPoint + 1] = IF down THEN touchNo ELSE 0]
      /\ raw' = NoPoint /\ torn' = FALSE
      /\ UNCHANGED <<down, at, touchNo, cursor>>
  BY DEF Store, NextSample, fingerVars
<1>2. calibPoint \in 0 .. 2 /\ ~calibrated
  BY <1>1 DEF PhaseOK, TypeOK
<1>3. calibPoint + 1 \in Box
  BY <1>2 DEF Box
<1>4. scr' = [scr EXCEPT ![calibPoint + 1] = raw] /\ raw \in Sample
  BY <1>1, <1>2, ReturnedType DEF Store
<1>5. scr' \in [Box -> Sample \cup {[x |-> 0, y |-> 0]}]
  BY <1>4 DEF TypeOK
<1>6. place' \in [Box -> Sample \cup {NoPoint}] /\ pure' \in BOOLEAN
  <2>1. /\ pure' = (pure /\ down /\ ~torn)
        /\ place' = IF pure' THEN [place EXCEPT ![calibPoint + 1] = at]
                    ELSE [k \in Box |-> NoPoint]
    BY DEF Store
  <2>2. pure' \in BOOLEAN
    BY <2>1, Zenon
  <2>3. CASE pure'
    BY <2>1, <2>2, <2>3 DEF TypeOK
  <2>4. CASE ~pure'
    BY <2>1, <2>2, <2>4 DEF TypeOK
  <2> QED
    BY <2>3, <2>4
<1>7. owner' \in [Box -> 0 .. MaxTouch]
  <2>1. touchNo \in 0 .. MaxTouch /\ 0 \in 0 .. MaxTouch
    BY PanelAssumption DEF TypeOK
  <2>2. (IF down THEN touchNo ELSE 0) \in 0 .. MaxTouch
    BY <2>1
  <2> QED
    BY <1>1, <2>2 DEF TypeOK
<1>8. matrix' \in Matrix /\ matrix'.Divider \in Int
  <2>1. scr' \in [Box -> Point]
    BY <1>5, SampleIsPoint
  <2>2. CASE calibPoint = 2
    <3>1. matrix' = setCalibrationMatrix(matrix, RefPoint[1], RefPoint[2], RefPoint[3],
                                         scr'[1], scr'[2], scr'[3])
      BY <2>2 DEF Store, touch_calibrate
    <3>2. matrix' \in Matrix
      BY <2>1, <3>1, MatrixType
    <3> QED
      BY <3>2 DEF Matrix
  <2>3. CASE calibPoint # 2
    BY <2>3 DEF Store, TypeOK
  <2> QED
    BY <2>2, <2>3
<1>9. \/ calibPoint = 2 /\ calibrated' = TRUE /\ caller' = "lcd_test"
      \/ calibPoint # 2 /\ calibrated' = calibrated /\ caller' = caller
  BY DEF Store, touch_calibrate
<1>10. PhaseOK' /\ calibPoint' \in 0 .. 3 /\ caller' \in {"first", "loop", "lcd_test"}
  BY <1>1, <1>2, <1>9 DEF PhaseOK, TypeOK
<1>11. calibrated' \in BOOLEAN
  BY <1>9 DEF TypeOK
<1>12. ReadOK' /\ raw' \in [x : Coord \cup {-1}, y : Coord \cup {-1}]
  BY <1>1 DEF ReadOK, Sampling, NoPoint
<1> QED
  BY <1>1, <1>5, <1>6, <1>7, <1>8, <1>10, <1>11, <1>12 DEF TypeOK

(* Every step of finger, driver and application preserves the types. *)
LEMMA TypeStep == TypeInv /\ [Next]_vars => TypeInv'
<1> SUFFICES ASSUME TypeInv, [Next]_vars PROVE TypeInv'
  OBVIOUS
<1>1. CASE UNCHANGED vars
  BY <1>1 DEF vars, fingerVars, sampleVars, calibVars, histVars, TypeInv, TypeOK, PhaseOK,
     ReadOK, Sampling
<1>2. CASE Next
  BY <1>2, FingerTypes, ReadingTypes, SampleTypes, StoreTypes DEF Next
<1> QED
  BY <1>1, <1>2

(* TypeInv always holds. *)
LEMMA TypeAlways == Spec => []TypeInv
BY TypeInit, TypeStep, PTL DEF Spec

(***************************************************************************)
(* The panel, the calibration and the cursor keep their types: a point is  *)
(* stored only while touch_xyz returns it unconverted, there are never     *)
(* more than three, and what lcd_test shows is always a point.             *)
(***************************************************************************)
THEOREM TypeCorrect == Spec => []TypeOK
<1>1. TypeInv => TypeOK
  BY DEF TypeInv
<1> QED
  BY <1>1, TypeAlways, PTL

----------------------------------------------------------------------------
(***************************************************************************)
(* The cursor.  A sample during which the finger did not come or go is the *)
(* place of the finger; so the samples of three steady touches are the     *)
(* places of the three, and the matrix computed from them is exact there.  *)
(***************************************************************************)

(* What has been read of a steady sample is where the finger is. *)
SteadySample ==
  ~torn => /\ Sampling /\ down => raw.x = at.x
           /\ pc \in {"z1", "z2"} /\ down => raw.y = at.y

(* The points stored are the places touched, if all touches were steady. *)
PointsArePlaces == pure => \A k \in Box : k <= calibPoint => scr[k] = place[k]

(* lcd_test runs with the matrix of the three points. *)
MatrixOfPoints ==
  caller = "lcd_test" =>
    \E m \in Matrix : matrix = setCalibrationMatrix(m, RefPoint[1], RefPoint[2], RefPoint[3],
                                                    scr[1], scr[2], scr[3])

CursorInv == SteadySample /\ PointsArePlaces /\ MatrixOfPoints

(* A steady sample that is complete is the place of the finger. *)
LEMMA SteadyIsPlace ==
  ASSUME TypeInv, SteadySample, pc = "z2", down, ~torn
  PROVE  raw = at
<1>1. raw.x = at.x /\ raw.y = at.y
  BY DEF SteadySample, Sampling
<1>2. raw \in Sample /\ at \in Sample
  BY ReturnedType DEF TypeInv, ReadOK
<1> QED
  BY <1>1, <1>2 DEF Sample

(* Every step keeps steady samples true to the finger. *)
LEMMA SteadyStep ==
  ASSUME TypeInv, SteadySample, [Next]_vars
  PROVE  SteadySample'
<1>1. CASE UNCHANGED vars
  BY <1>1 DEF vars, fingerVars, sampleVars, SteadySample, Sampling
<1>2. CASE (\E p \in Sample : Press(p)) \/ Lift
  <2>1. torn' = Sampling /\ pc' = pc
    BY <1>2 DEF Press, Lift
  <2>2. ~torn' => pc' \notin {"y", "z1", "z2"}
    BY <2>1, Zenon DEF Sampling
  <2> QED
    BY <2>2 DEF SteadySample, Sampling
<1>3. CASE ReadX
  <2>1. pc' = "y" /\ UNCHANGED <<down, at>> /\ (down => raw'.x = at.x)
    BY <1>3 DEF ReadX, Reported, fingerVars
  <2> QED
    BY <2>1 DEF SteadySample, Sampling
<1>4. CASE ReadY
  <2>1. /\ pc = "y" /\ pc' = "z1" /\ UNCHANGED <<down, at, torn>>
        /\ raw'.x = raw.x /\ (down => raw'.y = at.y)
    BY <1>4 DEF ReadY, Reported, fingerVars, TypeInv, TypeOK
  <2> QED
    BY <2>1 DEF SteadySample, Sampling
<1>5. CASE ReadZ1
  <2>1. pc = "z1" /\ pc' = "z2" /\ UNCHANGED <<down, at, raw, torn>>
    BY <1>5 DEF ReadZ1, fingerVars
  <2>2. ~torn' => (down' => raw'.x = at'.x /\ raw'.y = at'.y)
    BY <2>1 DEF SteadySample, Sampling
  <2> QED
    BY <2>2 DEF SteadySample
<1>6. CASE calibrateStart \/ FirstSample \/ SeeRelease \/ Ignore \/ Store \/ lcd_test
  BY <1>6 DEF calibrateStart, FirstSample, SeeRelease, Ignore, Store, lcd_test, NextSample,
     SteadySample, Sampling
<1> QED
  BY <1>1, <1>2, <1>3, <1>4, <1>5, <1>6 DEF Next

(* Storing a point keeps the points at the places and sets the matrix. *)
LEMMA StoreCursor ==
  ASSUME TypeInv, CursorInv, Store
  PROVE  PointsArePlaces' /\ MatrixOfPoints'
<1> USE DEF CursorInv
<1>1. /\ pc = "z2" /\ caller = "loop"
      /\ calibPoint' = calibPoint + 1
      /\ pure' = (pure /\ down /\ ~torn)
      /\ place' = IF pure' THEN [place EXCEPT ![calibPoint + 1] = at]
                  ELSE [k \in Box |-> NoPoint]
  BY DEF Store
<1>2. calibPoint \in 0 .. 2 /\ ~calibrated /\ calibPoint + 1 \in Box
  BY <1>1 DEF TypeInv, PhaseOK, TypeOK, Box
<1>3. scr' = [scr EXCEPT ![calibPoint + 1] = raw]
  BY <1>1, <1>2, ReturnedType DEF Store
<1>4. PointsArePlaces'
  <2> SUFFICES ASSUME pure', NEW k \in Box, k <= calibPoint + 1
               PROVE  scr'[k] = place'[k]
    BY <1>1 DEF PointsArePlaces
  <2>1. pure /\ down /\ ~torn /\ place' = [place EXCEPT ![calibPoint + 1] = at]
    BY <1>1
  <2>2. raw = at
    BY <1>1, <2>1, SteadyIsPlace
  <2>4. CASE k = calibPoint + 1
    BY <1>3, <2>1, <2>2, <2>4 DEF TypeInv, TypeOK
  <2>5. CASE k # calibPoint + 1
    <3>1. k <= calibPoint
      BY <1>2, <2>5 DEF Box
    <3> QED
      BY <1>3, <2>1, <2>5, <3>1 DEF PointsArePlaces, TypeInv, TypeOK
  <2> QED
    BY <2>4, <2>5
<1>5. MatrixOfPoints'
  <2>1. CASE calibPoint = 2
    BY <2>1 DEF Store, touch_calibrate, MatrixOfPoints, TypeInv
  <2>2. CASE calibPoint # 2
    BY <1>1, <2>2 DEF Store, MatrixOfPoints
  <2> QED
    BY <2>1, <2>2
<1> QED
  BY <1>4, <1>5

(* Every step preserves CursorInv. *)
LEMMA CursorStep == TypeInv /\ CursorInv /\ [Next]_vars => CursorInv'
<1> SUFFICES ASSUME TypeInv, CursorInv, [Next]_vars PROVE CursorInv'
  OBVIOUS
<1>1. SteadySample'
  BY SteadyStep DEF CursorInv
<1>2. ASSUME UNCHANGED <<caller, calibPoint, scr, place, pure, matrix>>
      PROVE  PointsArePlaces' /\ MatrixOfPoints'
  BY <1>2 DEF CursorInv, PointsArePlaces, MatrixOfPoints
<1>3. CASE UNCHANGED vars
  BY <1>1, <1>2, <1>3 DEF vars, calibVars, histVars, CursorInv
<1>4. CASE (\E p \in Sample : Press(p)) \/ Lift \/ ReadX \/ ReadY \/ ReadZ1 \/ SeeRelease
              \/ Ignore \/ lcd_test
  BY <1>1, <1>2, <1>4 DEF Press, Lift, ReadX, ReadY, ReadZ1, SeeRelease, Ignore, lcd_test,
     calibVars, histVars, CursorInv
<1>5. CASE calibrateStart
  <2>1. calibPoint' = 0 /\ caller' = "first"
    BY <1>5 DEF calibrateStart, TypeInv, PhaseOK
  <2> QED
    BY <1>1, <2>1 DEF CursorInv, PointsArePlaces, MatrixOfPoints, Box
<1>6. CASE FirstSample
  BY <1>1, <1>6 DEF FirstSample, calibVars, histVars, CursorInv, PointsArePlaces, MatrixOfPoints
<1>7. CASE Store
  BY <1>1, <1>7, StoreCursor DEF CursorInv
<1> QED
  BY <1>3, <1>4, <1>5, <1>6, <1>7 DEF Next

(* The matrix of three points takes each of them to its box. *)
LEMMA BoxesExact ==
  ASSUME NEW m, NEW s \in [Box -> Point], Divider(s[1], s[2], s[3]) # 0, NEW k \in Box
  PROVE  getDisplayPoint(s[k], setCalibrationMatrix(m, RefPoint[1], RefPoint[2], RefPoint[3],
                                                    s[1], s[2], s[3])) = RefPoint[k]
<1>1. RefPoint[1] \in Point /\ RefPoint[2] \in Point /\ RefPoint[3] \in Point
  BY DEF RefPoint, Point
<1>2. s[1] \in Point /\ s[2] \in Point /\ s[3] \in Point
  BY DEF Box
<1>3. k = 1 \/ k = 2 \/ k = 3
  BY DEF Box
<1> QED
  BY <1>1, <1>2, <1>3, CalibrationExact

(***************************************************************************)
(* After three steady touches that are not on one line, for any panel and  *)
(* wherever they were: a steady touch at the place of one of them puts the *)
(* cursor of lcd_test exactly on its box.                                  *)
(***************************************************************************)
THEOREM CursorExact == Spec => CursorUnderFinger
<1>1. Init => CursorInv
  BY DEF Init, CursorInv, SteadySample, Sampling, PointsArePlaces, MatrixOfPoints, Box
<1>2. TypeInv /\ CursorInv /\ [Next]_vars =>
        [lcd_test /\ down /\ ~torn /\ pure /\ matrix.Divider # 0
           => \A k \in Box : at = place[k] => cursor' = RefPoint[k]]_vars
  <2> SUFFICES ASSUME TypeInv, CursorInv, lcd_test, down, ~torn, pure, matrix.Divider # 0,
                      NEW k \in Box, at = place[k]
               PROVE  cursor' = RefPoint[k]
    OBVIOUS
  <2>1. pc = "z2" /\ caller = "lcd_test" /\ calibrated /\ calibPoint = 3
    BY DEF lcd_test, TypeInv, PhaseOK
  <2>2. raw = at
    BY <2>1, SteadyIsPlace DEF CursorInv
  <2>3. scr[k] = at
    BY <2>1 DEF CursorInv, PointsArePlaces, Box
  <2>4. PICK m \in Matrix : matrix = setCalibrationMatrix(m, RefPoint[1], RefPoint[2], RefPoint[3],
                                                          scr[1], scr[2], scr[3])
    BY <2>1 DEF CursorInv, MatrixOfPoints
  <2>5. scr \in [Box -> Point]
    BY SampleIsPoint DEF TypeInv, TypeOK
  <2>6. matrix.Divider = Divider(scr[1], scr[2], scr[3])
    BY <2>4 DEF setCalibrationMatrix
  <2>7. getDisplayPoint(scr[k], matrix) = RefPoint[k]
    BY <2>4, <2>5, <2>6, BoxesExact
  <2>8. \E p \in {RefPoint[k]} : cursor' = IF p.x < 0 THEN [p EXCEPT !.y = -1] ELSE p
    BY <2>1, <2>2, <2>3, <2>7 DEF lcd_test, Returned
  <2>9. ~ (RefPoint[k].x < 0)
    BY DEF RefPoint, Box
  <2> QED
    BY <2>8, <2>9
<1> QED
  BY <1>1, <1>2, CursorStep, TypeAlways, PTL DEF Spec, CursorUnderFinger

============================================================================
