--------------------------- MODULE MCLiveOutbound ---------------------------
EXTENDS LiveOutbound, TLC

\* Viewers are interchangeable: no action and no property tells them apart.
ViewerSymmetry == Permutations(Viewers)
=============================================================================
