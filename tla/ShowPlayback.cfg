SPECIFICATION TimersSpec
CONSTANTS
  Groups <- Groups2
  GroupLists <- MCGroupLists
  Roles = {"intake", "exhaust"}
  RoleOf <- MCRoleOf
  Names = {"rain"}
  Cycles <- MCCycles
  Stories <- MCStories
  ProfileShows <- MCProfileShows
  Ticks = {1, 2}
  MaxLag = 4
  MaxRequests = 2
  None = None
  Uses = {"shows", "schedules"}
  Minute = 12
  Spacing = 9
  PollEvery = 2
  PollLatest = 3
  Day = 3
  Week = 2
  Entries <- MCEntries
  Controlled <- Groups2
  Everyone = "everyone"
  Never = Never
  Starts = {5}
  LastSecond = 84
  MaxChanges = 3
INVARIANTS
  OnSchedule
PROPERTIES
  PlayedInFull
  FiredInItsMinute
CHECK_DEADLOCK FALSE
