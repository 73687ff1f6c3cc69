SPECIFICATION KnowledgeSpec
CONSTANTS
    Tables <- MCTables
    Volatile <- MCVolatile
    MaxChanges = 1
    Questions <- MCQuestions
    FatwaStates <- MCStates
    Federal = "fatwa_federal"
    ToolLimit <- MCToolLimit
    CompareLimit <- MCCompareLimit
    DefaultTopK = 2
    RRFConstant = 60
    SemanticWeight = 7
    KeywordWeight = 3
    HybridModes = {TRUE, FALSE}
    MaxTokens = 4
    OverlapTokens = 3
    CountTokens <- MCCountTokens
    PDFs <- MCPDFs
    HTMLs <- MCHTMLs
INVARIANTS AnswersTheQuestion FusionKeepsOrder NothingBetterLeftOut
           ChunksCoverDocument
CHECK_DEADLOCK FALSE
