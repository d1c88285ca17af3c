SPECIFICATION MCSpec
CONSTANTS
  LastTab = 1
  Url = {"list", "item"}
  Listing = {"list"}
  Goal = {"list"}
  Ref = {"page_0", "page_1"}
  Closed = "closed"
  NoRef = "no ref"
  MaxIteration = 2
  MaxMove = 2
  PageId = {"tab"}
  NoPage = "no page"
  MaxEvent = 2
  MaxExecution = 2
  MaxAttempt = 2
  Looks = {"form", "sent", "login"}
  Gates = {"login"}
  Wanted = {"sent"}
  NoLook = "no look"
  Steps = {"type", "click"}
  Reads = {"hover"}
  NoStep = "no step"
  MaxTurn = 4
  MaxTask = 2
  MaxStep = 3
  LastModel = 2
  LastSize = 2
  MaxRun = 2
  MaxDeed = 3
  Element = {"link", "field", "list"}
  Clickable = {"link"}
  Typeable = {"field"}
  Container = {"list"}
  Gone = "gone"
INVARIANT TypeOK
INVARIANT VerdictSound
INVARIANT OneEngine
INVARIANT PageIsKept
INVARIANT OutcomeIsShown
PROPERTY CompletedWasSeen
PROPERTY NoBlindStep
PROPERTY StopSticks
PROPERTY NavigationIsFollowed
CHECK_DEADLOCK FALSE
