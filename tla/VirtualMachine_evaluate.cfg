CONSTANTS
  Clients <- MCClients
  MaxLeft = 2
SPECIFICATION Spec
INVARIANTS
  TokensInOrder
  AnswersMeaning
  KeepsOperandsBelow
