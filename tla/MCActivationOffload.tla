------------------------ MODULE MCActivationOffload ------------------------
\* Models of three to six layers; each layer saves tensors or none.
EXTENDS ActivationOffload

MCLayerCounts == 3..6
=============================================================================
