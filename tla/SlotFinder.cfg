SPECIFICATION Spec
CONSTANTS
  Day = 16
  WorkStart = 6
  WorkEnd = 12
  Interval = 2
  Noon = 8
  Afternoon = 10
  MaxSlots = 2
  Days = 3
  Durations = {1, 2, 3, 4, 10}
  Mailboxes = {"user", "attendee"}
  Meetings <- SomeMeetings
CHECK_DEADLOCK FALSE
INVARIANTS TypeOK SlotsAreFree SlotsInHours EnoughSlots CheckAgrees
PROPERTY SearchEnds
