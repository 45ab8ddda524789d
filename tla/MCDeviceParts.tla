--------------------------- MODULE MCDeviceParts ---------------------------
\* Values for TLC: one network at home and one for a cafe, each with the
\* password that only it accepts; two states of the pet, which are alike;
\* names and tools just as long as there is room for, longer and shorter.
EXTENDS DeviceParts, TLC

CONSTANTS Home, Cafe, Key, Word, Calm, Happy

Networks == {<<Home, Key>>, <<Cafe, Word>>}
Names ==
  {<<0, 17>>, <<0, 18>>, <<9, 5>>, <<10, 4>>, <<9, 6>>, <<2, 11>>,
   <<2, 12>>, <<31, 23>>}
Tools == {<<0, 8>>, <<10, 8>>, <<47, 8>>, <<47, 12>>}
SomePercents == {-1, 0, 50, 101}
AlikeMoods == Permutations({Calm, Happy})
=============================================================================
