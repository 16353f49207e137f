---------------------------- MODULE TouchCalib -----------------------------
(***************************************************************************)
(* The touch panel and its calibration: touch_xyz and touch_calibrate of   *)
(* drivers/touch.c, calibrateStart and lcd_test of calib_app.c, and main   *)
(* of lpc2478_lcd_cursor, against a finger that comes and goes at any      *)
(* moment.  A sample is four conversations with the panel, one per         *)
(* coordinate and two for the pressure, and the finger may move between    *)
(* any two of them.                                                        *)
(*                                                                         *)
(* One conversation (spi_read_tp) is a step here.  A contact whose own x   *)
(* and pressures the formula of touch_xyz does not take for a touch, too   *)
(* light or too near the edge, is no contact.  Drawing is left out.        *)
(***************************************************************************)
EXTENDS Calibrate

CONSTANTS
  Coord,      \* the values of a coordinate the panel reports
  MaxTouch    \* the number of times the finger comes down

ASSUME PanelAssumption ==
  /\ Coord \subseteq Nat /\ Coord # {}
  /\ MaxTouch \in Nat

Box == 1 .. 3
Sample == [x : Coord, y : Coord]
NoPoint == [x |-> -1, y |-> -1]

(* refPoint1, refPoint2 and refPoint3: the boxes the user is asked to touch. *)
RefPoint == << [x |-> 15, y |-> 282], [x |-> 120, y |-> 62], [x |-> 220, y |-> 262] >>

VARIABLES
  down, at, touchNo,   \* the finger: on the panel, where, and which touch it is
  pc,                  \* the next step of touch_xyz or of its caller
  caller,              \* "first" before the loop, "loop", or lcd_test
  raw,                 \* ix and iy
  calibPoint, releaseNeeded, touchReleased, scr,
  calibrated, matrix,  \* of touch.c
  cursor,              \* where lcd_test put the cursor
  torn,                \* the finger came or went during the sample
  place, owner, pure   \* history of the stored points, see Store

fingerVars == <<down, at, touchNo>>
sampleVars == <<raw, torn>>
calibVars == <<calibPoint, releaseNeeded, touchReleased, scr, calibrated, matrix>>
histVars == <<place, owner, pure>>
vars == <<fingerVars, pc, caller, sampleVars, calibVars, cursor, histVars>>

Init ==
  /\ down = FALSE /\ at = NoPoint /\ touchNo = 0
  /\ pc = "start" /\ caller = "first"
  /\ raw = NoPoint /\ torn = FALSE
  /\ calibPoint = 0
  /\ releaseNeeded = FALSE /\ touchReleased = FALSE
  /\ scr = [k \in Box |-> [x |-> 0, y |-> 0]]
  /\ calibrated = FALSE
  /\ matrix = [rows |-> [An |-> 0, Bn |-> 0, Cn |-> 0, Dn |-> 0, En |-> 0, Fn |-> 0],
               Divider |-> 0]
  /\ cursor = NoPoint
  /\ place = [k \in Box |-> NoPoint]
  /\ owner = [k \in Box |-> 0]
  /\ pure = TRUE

TypeOK ==
  /\ down \in BOOLEAN /\ at \in Sample \cup {NoPoint} /\ touchNo \in 0 .. MaxTouch
  /\ pc \in {"start", "x", "y", "z1", "z2"}
  /\ caller \in {"first", "loop", "lcd_test"}
  /\ raw \in [x : Coord \cup {-1}, y : Coord \cup {-1}]
  /\ torn \in BOOLEAN
  /\ calibPoint \in 0 .. 3
  /\ releaseNeeded \in BOOLEAN /\ touchReleased \in BOOLEAN
  /\ scr \in [Box -> Sample \cup {[x |-> 0, y |-> 0]}]
  /\ calibrated \in BOOLEAN /\ matrix.Divider \in Int
  /\ cursor \in Point
  /\ place \in [Box -> Sample \cup {NoPoint}]
  /\ owner \in [Box -> 0 .. MaxTouch]
  /\ pure \in BOOLEAN

----------------------------------------------------------------------------
(* The finger. *)

Sampling == pc \in {"y", "z1", "z2"}

Press(p) ==
  /\ ~down /\ touchNo < MaxTouch
  /\ down' = TRUE /\ at' = p /\ touchNo' = touchNo + 1
  /\ torn' = Sampling
  /\ UNCHANGED <<pc, caller, raw, calibVars, cursor, histVars>>

Lift ==
  /\ down
  /\ down' = FALSE /\ at' = NoPoint
  /\ torn' = Sampling
  /\ UNCHANGED <<touchNo, pc, caller, raw, calibVars, cursor, histVars>>

----------------------------------------------------------------------------
(* touch_xyz *)

(* What the panel reports for a coordinate: noise if nothing touches it. *)
Reported(value) == IF down THEN {value} ELSE Coord

ReadX ==
  /\ pc = "x"
  /\ \E v \in Reported(at.x) : raw' = [x |-> v, y |-> -1]
  /\ pc' = "y"
  /\ UNCHANGED <<fingerVars, caller, torn, calibVars, cursor, histVars>>

ReadY ==
  /\ pc = "y"
  /\ \E v \in Reported(at.y) : raw' = [raw EXCEPT !.y = v]
  /\ pc' = "z1"
  /\ UNCHANGED <<fingerVars, caller, torn, calibVars, cursor, histVars>>

ReadZ1 ==
  /\ pc = "z1"
  /\ pc' = "z2"
  /\ UNCHANGED <<fingerVars, caller, raw, torn, calibVars, cursor, histVars>>

(***************************************************************************)
(* The last reading, Z2, and what the caller does with the sample are one  *)
(* step: nothing in between looks at the panel.                            *)
(*                                                                         *)
(* *z, as to whether it differs from 0.  It is (ix * iz2 - iz1) / iz1, and *)
(* 0 if that is above a limit.  If one touch lasted from the reading of x  *)
(* to this one, it is not 0.  Otherwise some of the three values are noise *)
(* or those of another touch, and it may be either: with nothing on the    *)
(* panel a small ix makes it a touch, and an iz1 of 0 is a division by     *)
(* zero, whose result is up to the run-time library.                       *)
(***************************************************************************)
Touched == IF down /\ ~torn THEN {TRUE} ELSE BOOLEAN

(* What a point on the stack may hold that nobody has set. *)
Unset == Sample \cup {NoPoint}

(* Mutant: the test of the flag is the wrong way round. *)
ReturnedInverted ==
  IF calibrated THEN {raw}
  ELSE IF matrix.Divider = 0 THEN Unset
  ELSE {getDisplayPoint(raw, matrix)}

(* The points touch_xyz may return; displayPoint is not set if Divider is 0. *)
Returned ==
  IF ~calibrated THEN {raw}
  ELSE IF matrix.Divider = 0 THEN Unset
  ELSE {getDisplayPoint(raw, matrix)}

NextSample == pc' = "x" /\ raw' = NoPoint /\ torn' = FALSE

----------------------------------------------------------------------------
(* calibrateStart *)

calibrateStart ==
  /\ pc = "start"
  /\ releaseNeeded' = FALSE
  /\ calibPoint' = 0
  /\ pc' = "x"
  /\ UNCHANGED <<fingerVars, caller, sampleVars, touchReleased, scr, calibrated,
                 matrix, cursor, histVars>>

(* The sample before the loop is not looked at. *)
FirstSample ==
  /\ pc = "z2" /\ caller = "first"
  /\ caller' = "loop"
  /\ NextSample
  /\ UNCHANGED <<fingerVars, calibVars, cursor, histVars>>

(* z == 0: the panel is taken to be untouched. *)
SeeRelease ==
  /\ pc = "z2" /\ caller = "loop"
  /\ FALSE \in Touched
  /\ touchReleased' = TRUE
  /\ NextSample
  /\ UNCHANGED <<fingerVars, caller, calibPoint, releaseNeeded, scr, calibrated,
                 matrix, cursor, histVars>>

(* Mutant: the release is not waited for. *)
NeverHeld == FALSE

(* The touch is the one that gave the last point. *)
Held == releaseNeeded /\ ~touchReleased

Ignore ==
  /\ pc = "z2" /\ caller = "loop"
  /\ TRUE \in Touched /\ Held
  /\ NextSample
  /\ UNCHANGED <<fingerVars, caller, calibVars, cursor, histVars>>

(* touch_calibrate, called with the third point; its result is not looked at. *)
touch_calibrate(s) ==
  /\ matrix' = setCalibrationMatrix(matrix, RefPoint[1], RefPoint[2], RefPoint[3],
                                    s[1], s[2], s[3])
  /\ calibrated' = TRUE

(***************************************************************************)
(* The sample becomes the point of the next box.  owner records the touch  *)
(* that was on the panel, 0 if none, and place where it was; pure says     *)
(* that one touch lasted for the whole of each stored sample (place is     *)
(* dropped otherwise).                                                     *)
(***************************************************************************)
Store ==
  /\ pc = "z2" /\ caller = "loop"
  /\ TRUE \in Touched /\ ~Held
  /\ touchReleased' = FALSE
  /\ releaseNeeded' = TRUE
  /\ calibPoint' = calibPoint + 1
  /\ \E p \in Returned : scr' = [scr EXCEPT ![calibPoint + 1] = p]
  /\ IF calibPoint = 2
     THEN touch_calibrate(scr') /\ caller' = "lcd_test"
     ELSE UNCHANGED <<calibrated, matrix, caller>>
  /\ owner' = [owner EXCEPT ![calibPoint + 1] = IF down THEN touchNo ELSE 0]
  /\ pure' = (pure /\ down /\ ~torn)
  /\ place' = IF pure' THEN [place EXCEPT ![calibPoint + 1] = at]
              ELSE [k \in Box |-> NoPoint]
  /\ NextSample
  /\ UNCHANGED <<fingerVars, cursor>>

(***************************************************************************)
(* lcd_test moves the cursor to the point, touched or not.  The two        *)
(* coordinates share a word: a negative x sets every bit of y.             *)
(***************************************************************************)
lcd_test ==
  /\ pc = "z2" /\ caller = "lcd_test"
  /\ \E p \in Returned : cursor' = IF p.x < 0 THEN [p EXCEPT !.y = -1] ELSE p
  /\ NextSample
  /\ UNCHANGED <<fingerVars, caller, calibVars, histVars>>

----------------------------------------------------------------------------
Next ==
  \/ \E p \in Sample : Press(p)
  \/ Lift
  \/ ReadX \/ ReadY \/ ReadZ1
  \/ calibrateStart \/ FirstSample \/ SeeRelease \/ Ignore \/ Store \/ lcd_test

Spec == Init /\ [][Next]_vars

----------------------------------------------------------------------------
(***************************************************************************)
(* A touch supplies one calibration point: however long the finger stays,  *)
(* and although the pressure may read either way in a sample during which  *)
(* it comes or goes, two points that were stored with a finger on the      *)
(* panel are those of two touches, in order.  Points that were stored with *)
(* none on it, which the pressure formula does not exclude, have no owner. *)
(***************************************************************************)
OnePointPerTouch ==
  \A i, j \in 1 .. calibPoint :
    i < j /\ owner[i] # 0 /\ owner[j] # 0 => owner[i] < owner[j]

(***************************************************************************)
(* The calibration does its job: touching the panel again, steadily, where *)
(* it was touched for a box puts the cursor on that box, provided that the *)
(* three touches were steady and not on one line.                          *)
(***************************************************************************)
CursorUnderFinger ==
  [][lcd_test /\ down /\ ~torn /\ pure /\ matrix.Divider # 0
       => \A k \in Box : at = place[k] => cursor' = RefPoint[k]]_vars
============================================================================
