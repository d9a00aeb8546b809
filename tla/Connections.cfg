\* Three attempts, two confirmations at once, one fault.  The model stops when every
\* attempt has been used and closed, and every message has been handled.
SPECIFICATION TiesSpec
CONSTANTS
  Attempts = {a1, a2, a3}
  Requests = {r1, r2}
  MaxFaults = 1
  Users = {"ada", "bob"}
  Chats = {r1, r2}
  Codes = {1, 2}
  ChatTasks = {t1}
  AskerOf <- MCAskerOf
  Messages = {1, 2, 3}
  Contents <- MCContents
  CodeLife = 1
  Burst = 1
  NoticeWindow = 1
  MaxAsked = 1
  MaxTime = 1
INVARIANTS
  RowNamesALiveProfile
  EveryProfileIsAccountedFor
  OpenIsWatched
  BindingHolds
  NobodyIsIgnored
SYMMETRY Symmetry
CHECK_DEADLOCK FALSE
