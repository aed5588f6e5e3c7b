SPECIFICATION PlanSpec
CONSTANTS
  Nodes = {"save", "remove", "saved"}
  LabelOf <- ShownLabels
  Documents <- ShownDocuments
  ChurnLimit = 2
  HistoryLimit = 2
  PlanSteps = 2
  Others = 1
  Changes = 2
INVARIANT ReferencesHold
CHECK_DEADLOCK FALSE
