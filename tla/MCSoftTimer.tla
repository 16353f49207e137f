---- MODULE MCSoftTimer ----
EXTENDS SoftTimer

====
