CONSTANT Keys = {1, 2, 3, 4, 5, 6, 7, 8, 9, 10, 11, 12}
SPECIFICATION Spec
INVARIANTS BalancedSearchTree StepsInOrder
