SPECIFICATION Spec
CONSTANTS
  warmer = warmer
  Warmable = {warmer}
  Scores <- MCScores
  Sentences <- MCSentences
  Words <- MCWords
  Links <- MCLinks
  Foreign <- MCForeign
  Within <- MCWithin
  Graded <- MCGraded
  MaxAttempts = 2
INVARIANTS MetWhereTheyAre FitToSay FactsSurvive
