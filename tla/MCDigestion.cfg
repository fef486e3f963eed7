SPECIFICATION SceneSpec
CONSTANTS
  Chunk <- Leaf
  Reducer = {"section", "root"}
  RootStage = "root"
  ChildrenOf <- Tree
  PiecesOf <- Cover
  BlockOf <- Home
  Policies <- SomePolicies
  Styles <- Plain
  Citations <- CitedWhole
  MaxClaims <- TwoBelow
INVARIANTS ContentSurvives AccountIsHonest 
CHECK_DEADLOCK FALSE
