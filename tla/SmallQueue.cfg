SPECIFICATION Spec
CONSTANTS
  QueueSize = 2
  IdxMod = 4
  QueueNums = {1}
  Tag = {1, 2}
  Data = {0, 1, 2, 3}
  Image <- MCImage
  Content <- MCContent
  Zero = 0
  Partial = 3
  Request <- MCRequest
  NoRequest = NoRequest
PROPERTIES
  AllDrained
