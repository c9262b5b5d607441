SPECIFICATION FairPagesSpec
CONSTANTS
  p1 = p1  p2 = p2  me = me  other = other  None = None
  Products = {p1, p2}
  Items = {p1}
  Texts = {"", "ab", "cd"}
  Short = {""}
  Customers = {me, other}
  Me = me
  MaxRecent = 1
  Budgets <- SomeBudgets
INVARIANTS SuggestionsAreLatest TitleNamesThePage RatingCountsReviews
PROPERTIES ButtonsComeBack
CHECK_DEADLOCK FALSE
