---- MODULE MCTouchCalib ----
EXTENDS TouchCalib

====
