SPECIFICATION MCFairSpec
CONSTANTS
  c1 = c1
  c2 = c2
  a1 = a1
  s1 = s1
  s2 = s2
  i1 = i1
  fixed = fixed
  flexible = flexible
  small = small
  large = large
  Blank = Blank
  NoShape = NoShape
  NoSize = NoSize
  Shapes = {fixed, flexible}
  Sizes = {small, large}
  FixedShapes = {fixed}
  Allows <- SmallIsFixedOnly
  DefaultSize <- SmallForFixed
  Offered <- TwoOffers
  MaxPolicyEdits = 3
  Typing = Typing
  Compartments = {c1, c2}
  ADs = {a1}
  Subnets = {s1, s2}
  Images = {i1}
  Params <- FormParams
  NoParams <- BlankParams
  Listing <- TwoCompartments
  MaxEdits = 3
  MaxReads = 1
PROPERTIES
  CatalogSettles
CHECK_DEADLOCK FALSE
