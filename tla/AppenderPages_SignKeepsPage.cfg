SPECIFICATION PagesSpec
CONSTANTS
    NumPages = 2
    Foreign = {f1}
    MaxOps = 3
CHECK_DEADLOCK FALSE
PROPERTY SignKeepsPage
