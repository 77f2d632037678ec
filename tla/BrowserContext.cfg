SPECIFICATION Spec
CONSTANTS
  Tabs = {t1}
  Urls = {u1, u2}
  Refused = {u2}
  Media = {"none", "playing"}
  None = None
  MaxInbox = 2
INVARIANTS TypeOK MemoryIsTrue MediaBelongsToItsUrl CorePlaysOnlyWhatPlays
PROPERTY MediaStaysRepresented
