SPECIFICATION Spec
CONSTANTS
  Contexts = {x1}
  Conns = {c1, c2}
  NoConn = NoConn
  Criteria = {name}
  Ranges = {price}
  SortOrders = {byDate}
  FacetFields = {category}
  FacetQueries = {cheap}
  Options = {limit}
  Values = {v}
  Unset = Unset
  Highlights = {hl}
  NoHighlight = NoHighlight
  NoRange = NoRange
  NoFacet = NoFacet
  NoRequest = NoRequest
  MaxSteps = 5
SYMMETRY MCSymmetry
INVARIANTS
  TypeOK
  NothingIsForgotten
  OrderMatters
  OptionsStick
PROPERTY
  StepsStay
