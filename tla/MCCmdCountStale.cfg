SPECIFICATION CountSpec
CONSTANT Width = 8
INVARIANT CommandsClearCount
