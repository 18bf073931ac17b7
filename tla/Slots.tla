------------------------------- MODULE Slots -------------------------------
(***************************************************************************)
(* The slot arithmetic of home_guard/_slots.py: the hours of a day at      *)
(* which a slot opens, the enforcement window, and which slots of the day  *)
(* are due.  A slot key ("0800") is represented by the hour it opens at.   *)
(***************************************************************************)
EXTENDS Integers

CONSTANTS
  DayStart,    \* GATE_DAY_START_HOUR: the hour the first slot opens
  Interval,    \* GATE_SLOT_INTERVAL_HOURS: hours between two slots
  WindowEnd,   \* GATE_WINDOW_END_HOUR: first hour the gate may not fire
  LastHour     \* the last hour of the day (23 on a clock, small for TLC)

(* With an interval of 0 the loop of slot_hours would never end.           *)
ASSUME SlotsAssumption ==
  /\ DayStart \in Nat /\ WindowEnd \in Nat /\ LastHour \in Nat
  /\ Interval \in Nat \ {0}
  /\ WindowEnd =< LastHour + 1

Hours == 0 .. LastHour

SlotHours ==
  {h \in DayStart .. (WindowEnd - 1) : (h - DayStart) % Interval = 0}

WithinEnforcementWindow(h) == DayStart =< h /\ h < WindowEnd

ElapsedSlots(h) ==
  {s \in SlotHours : WithinEnforcementWindow(h) /\ s =< h}

MissingSlots(h, cleared) == ElapsedSlots(h) \ cleared
=============================================================================
