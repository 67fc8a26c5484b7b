CONSTANTS
  p1 = p1
  a1 = a1
  a2 = a2
  s1 = s1
  w1 = w1
  w2 = w2
  Plain = {p1}
  Assistant = {a1, a2}
  Stream = {s1}
  Workers = 2
  LlmWorker = {w1, w2}
SPECIFICATION Spec
PROPERTIES
  EveryCallAnswered
  StreamsLetGo
  LlmComesBack
