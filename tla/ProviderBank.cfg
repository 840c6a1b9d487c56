SPECIFICATION BankFairSpec
CONSTANTS
  Name = {1, 2}
  Config <- Configs
  Inquiry <- Inquiries
  Inquirer = {1, 2}
  Adapter = {"lm_studio", "openai"}
  Threshold = 2
  MaxConfigured = 1
CHECK_DEADLOCK FALSE
INVARIANTS SlotsAreUsed BestAnswers
PROPERTIES InquiriesEnd
