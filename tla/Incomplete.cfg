\* Frames of which TCP may deliver a part first: what netProc_Recv does with
\* an incomplete one.
CONSTANTS
  FullSize = 8
  Header = 2
  Payloads = {0, 1}
  Replies = {2, 3}
  MaxReceived = 6
  MaxSent = 3
  MaxReplies = 3
  MaxConnections = 2
SPECIFICATION Spec
INVARIANT IncompleteWaits
CHECK_DEADLOCK FALSE
