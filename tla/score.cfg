\* All acyclic targets over four operations, scored against themselves; small targets
\* with a state token and a token outside the alphabet, scored at two floors.
SPECIFICATION ScoreSpec
CONSTANTS
  Targets <- AllTargets
  Floors = {1, 2}
  Predictions <- PredictionsFor
INVARIANTS SparseIsDense CompelledIsShared SelfScorePerfect
