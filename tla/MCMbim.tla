------------------------------- MODULE MCMbim -------------------------------
EXTENDS Mbim
=============================================================================
