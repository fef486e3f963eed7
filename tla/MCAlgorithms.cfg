SPECIFICATION SceneSpec
CONSTANTS
  Documents <- MCDocuments
  Profiles <- MCProfiles
  Key <- MCKey
  Questions <- MCQuestions
  TopK = 5
INVARIANTS ChunksAreTheText ReductionIsFaithful FusionIsFair
CHECK_DEADLOCK FALSE
