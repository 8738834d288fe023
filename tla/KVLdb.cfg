CONSTANTS
  Keys = {1, 2, 3}
  Prefixes <- MCPrefixes
  Vals = {v}
  NoVal = NoVal
  Cookies = {0, 1}
  Cursors = {c}
SPECIFICATION Spec
INVARIANT ScanSeesSnapshot
