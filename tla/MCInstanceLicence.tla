------------------------- MODULE MCInstanceLicence -------------------------
EXTENDS InstanceLicence, TLC

CONSTANTS listed, legacy, other

MCFeatures == {listed, legacy, other}
MCLegacy == {legacy}

\* The key sold first and its renewal, with ticks of a quarter of the first one's life.
Sold == [tier |-> "pro", list |-> {listed}, exp |-> 1, iat |-> -3, token |-> TRUE]
Renewal == [tier |-> "pro", list |-> {listed, legacy}, exp |-> 9, iat |-> 0, token |-> TRUE]

TwoKeys == {Sold, Renewal}
SoldEnv == {NoKey, Sold}
=============================================================================
