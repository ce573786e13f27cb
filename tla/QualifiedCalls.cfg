SPECIFICATION Spec
CONSTANTS
  References <- AllReferences
  GraphRequests <- AllGraphRequests
  FileChanges <- AllFileChanges
  PanelRequests <- AllPanelRequests
  Replies <- AllReplies
CHECK_DEADLOCK FALSE
INVARIANT QualifiedCallsStay
