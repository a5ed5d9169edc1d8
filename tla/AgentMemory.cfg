\* Three episodes, three stores, one of them not embedded, and a deletion; two
\* sessions at a time, a row to an eviction, so both cases of the bound occur;
\* a second create may be refused, keep or empty; one request may fail.
SPECIFICATION Spec
CONSTANTS
  e1 = e1
  e2 = e2
  e3 = e3
  m1 = m1
  t1 = t1
  p1 = p1
  f1 = f1
  Episodes <- ThreeEpisodes
  Managed = {m1, p1}
  ByTool = {t1}
  Plain = {p1}
  Forgets = {f1}
  MaxEntries = 1
  Evicted = 1
  Sessions = 2
  MaxFailed = 1
  SecondCreate = {"keeps", "empties"}
SYMMETRY AlikeEpisodes
INVARIANTS TypeOK EpisodesBounded Mirrored
\* The requests end, and nothing makes a caller send another.
CHECK_DEADLOCK FALSE
