SPECIFICATION Spec
CONSTANTS
  Fields <- PackedComments
  MaxFields = 3
  NumThreads = 2
INVARIANT NoCommentLost
