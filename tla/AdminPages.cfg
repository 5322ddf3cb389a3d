SPECIFICATION Spec
CONSTANTS
  Pages = {"cron", "job", "forms", "accounts", "docker", "files", "session"}
  CronUsers = {"root", "app"}
  Jobs = {"j1"}
  MaxWrites = 1
  MaxEdits = 1
  Schedules = {"every minute", "at noon", "wrong"}
  Presets = {"every minute", "@daily", "@reboot"}
  MaxAsks = 2
  MaxThings = 2
  MaxPerms = 1
  MaxFormEdits = 1
  MaxRequests = 2
  MaxDocker = 3
  MaxTasks = 2
  TopFile = top
  SubDir = sub
  SubFile = subFile
  MaxAsked = 4
  SessUsers = {ann, bob}
  None = None
INVARIANTS CrontabSafe RunsOfSchedule ListConverges AccessAsShown   SessionFollowed
PROPERTY NothingElseTaken
CHECK_DEADLOCK FALSE
