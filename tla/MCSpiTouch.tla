---- MODULE MCSpiTouch ----
EXTENDS SpiTouch

====
