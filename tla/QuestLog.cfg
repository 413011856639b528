\* One session after another; saves may fail and the server may crash.
SPECIFICATION Spec
CONSTANTS
  s1 = s1  s2 = s2  a = a  b = b  c = c  d = d  m = m  n = n
  Session = {s1}
  Quest = {a, b, c, d}
  Npc = {m, n}
  Giver <- Giver4
  Ender <- Ender4
  Previous <- Previous4
  NoQuest = NoQuest
  AutoAccept = {b}
  AutoComplete = {c}
  Meets = {a, b, d}
  Slots = 2
  MaxFailures = 3
INVARIANTS ClientShowsTheLog CleanIsSaved ChainsInOrder TurnedInOnce
