SPECIFICATION Spec
CONSTANTS
  Workers = {0, 1}
  Results <- MCResults
  payout_script = payout
  Ex2Space = 2
  MaxTime = 2
INVARIANTS
  HeaderCommitsToBlock
