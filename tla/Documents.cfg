SPECIFICATION SharedWorkSpec
CONSTANTS
  Writers = {al}  Sessions = {e1, e2}  NoSession = none
  Channels = {c1, c2}  Bodies = {b1, b2}  FirstChannel = c1  FirstBody = b1
  PatchChannels = {}  OldBases = {1}  DocWorkers = {p1, p2}
  MaxVersion = 3  MaxLeases = 3  MaxBusy = 2
  Editors = {ann, bob}  Handlers = {h1, h2}  MaxRows = 2  MaxCheckouts = 2
  People = {ann, bob}  Identities = {n1, n2, n3}  Admins = {a1, a2}
  NoAdmin = nobody  MaxEpochs = 2
  nobody = nobody  al = al  none = none  e1 = e1  e2 = e2  c1 = c1  c2 = c2
  b1 = b1  b2 = b2  p1 = p1  p2 = p2  ann = ann  bob = bob  h1 = h1  h2 = h2
  n1 = n1  n2 = n2  n3 = n3  a1 = a1  a2 = a2
INVARIANTS
  SharedWorkTypeOK
  OneEditor TakeoverIsABarrier SupersededSessionStaysOut
  HistoryIsComplete CommentsFollowTheDocument
  VersionsFormOneChain OneCheckout WritesFollowTheCheckouts
  NextEditorFindsTheEnd
  OneCurrentEpoch KeysOpenNoLaterEpoch
SYMMETRY Alike
CHECK_DEADLOCK FALSE
