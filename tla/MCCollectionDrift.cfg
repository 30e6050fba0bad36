\* Two books in order and one edit of the Markdown of one of them.
SPECIFICATION ServedSpec
CONSTANTS
  NoOwner = NoOwner
  AgentOwner = AgentOwner
  Runner = {r1}
  Children = 2
  Tokens = {"auto"}
  Queued = {"auto"}
  Missing = {}
  Live = {"ocr"}
  Edits = {"text"}
  FailureBound = 0
  ChangeBound = 1
PROPERTIES BooksRunIndependently
CHECK_DEADLOCK FALSE
