CONSTANTS
    login = login
    list = list
    pay = pay
    ghost = ghost
    Documents <- AllDocuments
    Name <- FourNames
SPECIFICATION SortSpec
PROPERTY TopologicalSort
