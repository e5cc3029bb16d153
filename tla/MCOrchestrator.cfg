SPECIFICATION Spec
CONSTANTS
  r1 = r1  e1 = e1  api = api  safety = safety  odd = odd  none = none
  Runs <- MCRuns
  Enhancers <- MCEnhancers
  Slots <- MCSlots
  SlotShare <- MCShare
  FullBudget = 4
  MaxTokens = 4
  StepIds = {1, 2}
  Unordered = odd
  MaxSteps = 2
  Plans <- MCPlans
  Candidates <- MCCandidates
  BaseSizes = {1, 9}
  Header = 1
  FailureText = 2
  PromptBudget = 8
  MinCut = 1
  MaxAttempts = 2
  MaxTokenNo = 3
  MaxFaults = 1
  None = none
INVARIANTS CallsOutliveTheirTokens PromptIsFittingPrefix ContextKeepsBest
PROPERTIES FetchesOnlyWhenExpired RunsEnd
