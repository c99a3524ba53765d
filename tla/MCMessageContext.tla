-------------------------- MODULE MCMessageContext --------------------------
EXTENDS MessageContext, TLC

CONSTANTS teller, bank

MCCollaborators == {<<teller, bank>>}
ContextSymmetry == Permutations(Contexts)
=============================================================================
