SPECIFICATION FairSpec
CONSTANTS
  mention = mention
  echo = echo
  ann = ann
  bot = bot
  Post = {mention, echo}
  Mentions = {mention}
  Own = {echo}
  Other = {}
  Large = {}
  User = {ann, bot}
  AuthorOf <- MCAuthorOf
  Limit = 1
  MaxRetry = 1
  Faults = {"skew", "ack", "users", "sink", "restart"}
INVARIANTS
  OneItemPerPost
PROPERTIES
  EveryPostArrives
CHECK_DEADLOCK FALSE
