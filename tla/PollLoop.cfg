SPECIFICATION Spec
CONSTANTS
  Accounts = {"a1", "a2"}
  Calendars <- MCCalendars
  Events <- MCEvents
  account_of <- MCAccountOf
  calendar_of <- MCCalendarOf
  Unlisted = {"e2"}
  Limit = 2
  MaxChanges = 3
  MaxFailures = 1
INVARIANTS TypeOK MissingIsRemoved
PROPERTIES DisappearancesAreFollowed ChangesAreNoticed GroupsAreRepaired
