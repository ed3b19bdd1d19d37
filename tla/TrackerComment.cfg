SPECIFICATION Spec
CONSTANTS
  Fields <- OneComment
  MaxFields = 1
  NumThreads = 2
INVARIANT CommentsMatch
