SPECIFICATION Spec
CONSTANTS
  References <- AllReferences
  GraphRequests <- AllGraphRequests
  FileChanges <- AllFileChanges
  PanelRequests <- AllPanelRequests
  Replies <- AllReplies
CHECK_DEADLOCK FALSE
INVARIANT LinksFollowScope
INVARIANT GraphShowsNearest
INVARIANT GraphIsFounded
INVARIANT VerdictIsExact
INVARIANT RenamesAreCertain
INVARIANT DisplayCoversSummary
INVARIANT PanelIsGrounded
INVARIANT RepliesAreGrounded
