---------------------------- MODULE MCReporting ----------------------------
\* How a task is observed: claimed and finished over and over, asked, parked and
\* released, or finished, archived and answered late.
EXTENDS Reporting
LOCAL Plot(kinds, events) == [kinds |-> kinds, events |-> events]
SomePlots ==
  {Plot({"claimed", "completed", "reopened"}, 4),
   Plot({"claimed", "asked", "parked", "released"}, 4),
   Plot({"claimed", "completed", "archived", "asked", "answered"}, 3)}
\* Fewer events, for the properties of whole behaviours.
ShortPlots ==
  {Plot({"claimed", "completed", "reopened"}, 3),
   Plot({"claimed", "parked", "released"}, 2)}
=============================================================================
