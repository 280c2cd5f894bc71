SPECIFICATION FairSpec
CONSTANTS
  Nodes = {2}
  Ids = {1, 2, 3, 4}
  None = None
  HashIds <- AnyIds
  Senders <- PeerNodes
  StartRoles <- AnyRole
  Targets = {None, 1, 9}
INVARIANTS TypeOK RolesAgree
PROPERTIES AutomaticChange SilenceShows FailbackHappens FailoverHappens
