\* One restore of any artifact of one or two databases; two databases of others.
SPECIFICATION RestoreSpec
CONSTANTS
  Restores = {z}
  Sources = {s1, s2}
  Chosen = copy
  MaxOthers = 2
INVARIANTS NewNameOnly
CHECK_DEADLOCK FALSE
