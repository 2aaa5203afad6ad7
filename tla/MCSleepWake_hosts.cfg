SPECIFICATION MCSpec
CONSTANTS
  Deployment = {d1}
  Visitor = {}
  Operator = {o1}
  Sweeper = {}
  Posts = {"sleep"}
  Refresher = {}
  Nobody = nobody
  Flaky = FALSE
INVARIANTS HostsSurvive
CHECK_DEADLOCK FALSE
