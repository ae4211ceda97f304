------------------------------- MODULE MCApu -------------------------------
(* Instances of Apu: short counters, a volume of two bits and periods of   *)
(* three bits; every channel on both console families.                     *)
EXTENDS Apu

MCChannels == {"DMG", "CGB"} \X {"pulse", "sweep", "wave", "noise"}
MCSilent == NoVolume
MCLoud == [volume |-> 2, increase |-> FALSE, pace |-> 0]
MCNrx2Values ==
    [ pulse |-> {MCSilent, MCLoud,
                 [volume |-> 2, increase |-> FALSE, pace |-> 1],
                 [volume |-> 0, increase |-> TRUE, pace |-> 2]},
      sweep |-> {MCLoud},
      wave  |-> {MCSilent, MCLoud},
      noise |-> {MCSilent, [volume |-> 1, increase |-> TRUE, pace |-> 1]} ]
MCNr10Values ==
    {[pace |-> 1, decrease |-> FALSE, shift |-> n] : n \in {0, 1}}
    \cup {[pace |-> 1, decrease |-> TRUE, shift |-> 1]}
MCPeriodLows == {0, 3}
MCLengthLoads == [pulse |-> {1}, sweep |-> {}, wave |-> {1}, noise |-> {1}]
MCLengthBits == [pulse |-> BOOLEAN, sweep |-> {FALSE}, wave |-> BOOLEAN, noise |-> BOOLEAN]
MCMaxWrites == [pulse |-> 4, sweep |-> 3, wave |-> 3, noise |-> 3]

=============================================================================
