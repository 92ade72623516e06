CONSTANTS
  Tags = {1, 2}
  Slots = {1}
  Crowd <- Crowds
  MvMaps = {"m", "x"}
  Home = "m"
  Refused <- RefusedMaps
  Duration = 1
  ExpireGrace = 0
  Cooldown = 1
  SwitchDelay = 2
  MinYes = 2
  LastOpen = 1
  MaxOpens = 2
  MaxCasts = 1
  MaxOdd = 1
  Boxes = {1, 2, 3}
  FlMaps = {"m", "x"}
  FlHome = "m"
  NotHere <- MissingMaps
  FollowDelay = 1
  FollowGrace = 2
  RotateAfter = 2
  LoadTicks = 1
  PeerTicks = 1
  MaxPeople = 2
  MaxVisits = 2
SPECIFICATION MeshSpec
INVARIANTS VoteSound FollowSound
PROPERTIES MeshSettles
CHECK_DEADLOCK FALSE
