SPECIFICATION AccountsSpec
CONSTANTS
 member = member
 a = a
 p = p
 q = q
 None = None
 Users = {member, a}
 Passwords = {p, q}
 Handlers = {1,2}
 Admin = a
 Scenes <- MCScenes
 MaxAttempts = 2
 CodeTtl = 2
 MaxFailures = 2
 LockTime = 1
 CacheTtl = 1
 TicketTtl = 2
 Grace = 1
 ResendGap = 1
 HourlyLimit = 2
 Hour = 2
 DailyLimit = 1
 Day = 3
CHECK_DEADLOCK FALSE
INVARIANTS AccountsTypeOK SecretsAreNotGuessed
PROPERTIES SessionsFollowAccounts PowersChangeHands
