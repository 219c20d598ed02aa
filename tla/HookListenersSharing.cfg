SPECIFICATION Spec
CONSTANTS
  Home = home
  Guest = guest
  Threads = {t1}
  Listeners = {l1, l3}
  Owners = {home, guest}
  GuestParts = {l3}
  OwnerOf <- ListenerOwner
  GroupOf <- ThreadGroup
  Priority <- GuestFirst
  HostMayFail = TRUE
  Swept = {home, guest}
  MayClear = TRUE
INVARIANTS CountsAgree DeadHookHasNoListener QuiescedStaysQuiet ReleasedIsIdle
CHECK_DEADLOCK FALSE
