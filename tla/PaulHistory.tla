---------------------------- MODULE PaulHistory ----------------------------
(* PAUL with the open zones of the cycle before this one remembered.       *)
EXTENDS Paul

VARIABLE lastOpen   \* history: OpenZoneSet of the last cycle

HistoryInit == Init /\ lastOpen = {}

HistoryNext ==
  /\ Next
  /\ lastOpen' = IF activate' # activate THEN OpenZoneSet ELSE lastOpen

HistorySpec == HistoryInit /\ [][HistoryNext]_<<vars, lastOpen>>

\* "Deactivate the zone for the next 2 cycles": a zone that is opened was open
\* in neither of the two cycles before (redefineOpenZones()).
TwoCyclesInactive ==
  [][activate' # activate =>
       OpenZoneSet' \cap (OpenZoneSet \cup lastOpen) = {}]_<<vars, lastOpen>>
=============================================================================
