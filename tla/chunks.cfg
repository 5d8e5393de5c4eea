SPECIFICATION ChunkSpec
CONSTANTS
  NotYet = NotYet
  ChunkSize = 2
  Overlap = 1
  MaxChars = 5
  TextTokens = {"char", "space", "line", "para"}
  MaxText = 6
  MarkdownTokens = {"char", "head", "line", "para", "fence", "info"}
  MaxMarkdown = 5
  ProseTokens = {"char", "para"}
  MaxProse = 10
  PythonTokens = {"char", "line", "para"}
  MaxPython = 6
  Documents <- MCDocuments
INVARIANTS CoversInOrder SharesAtMostOverlap FitsMaximum CodeBlocksWhole
CHECK_DEADLOCK FALSE
