SPECIFICATION Spec
CONSTANTS
  Tabs = {t1}
  Urls = {u1}
  Refused = {}
  Media = {"none", "playing"}
  None = None
  MaxInbox = 2
PROPERTY PlayingMediaStaysRepresented
