SPECIFICATION FairSpec
CONSTANTS
  c1 = c1
  c2 = c2
  c3 = c3
  s1 = s1
  s2 = s2
  Clients = {c1, c2, c3}
  Servers = {s1, s2}
  Nobody = Nobody
  TextMax = 2
  Lines <- MCLines
  Fixrec <- MCFixrec
  Questions <- MCQuestions
  Missing = {c2, s2}
  MaxDeaths = 1
INVARIANTS RightAnswers OnePlace
PROPERTIES Answered
CHECK_DEADLOCK FALSE
