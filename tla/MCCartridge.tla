---------------------------- MODULE MCCartridge ----------------------------
EXTENDS Cartridge

MCUnit == <<2, 2, 2>>
MCWidth == <<4, 3, 3>>
MCTicks == {1, 5}
MCBulk == {1, 2, 3, 7, 17, 33}
=============================================================================
