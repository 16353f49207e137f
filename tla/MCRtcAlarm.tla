---- MODULE MCRtcAlarm ----
EXTENDS RtcAlarm

\* Two ticks after LocalTime the minute changes; the alarm is one tick after it.
MCLocalTime == <<1, 0, 1>>
MCAlarmTime == <<2, 0, 1>>

====
