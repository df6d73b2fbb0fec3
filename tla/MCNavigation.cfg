CONSTANTS
  Tabs = {t1}
  Workspaces = {s1, s2}
  Accounts = {me}
  Invitee = me
  InvitedTo = s2
  Staff = {}
  Nobody = Nobody
  Stale = Stale
  Nowhere = Nowhere
  MaxActs = 5
  MaxHops = 5
SPECIFICATION NavSpec
CHECK_DEADLOCK FALSE
INVARIANT SignInBrandsPath
