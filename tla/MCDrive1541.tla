---------------------------- MODULE MCDrive1541 ----------------------------
(* Six programs: two about the timers, one about the serial bus, three     *)
(* that read a disk: one that starts and stops the motor, one that changes *)
(* the density, one that moves the head.                                   *)
EXTENDS Drive1541

MCTimers(registers) ==
  [chip |-> "via2", lines |-> {{}}, ports |-> {}, directions |-> {}, disks |-> {},
   registers |-> registers]
MCTimer1 == MCTimers({"T1CL", "T1CH", "T1LL", "T1LH", "ACR", "IER"})
MCTimer2 == MCTimers({"T1CH", "T2CL", "T2CH", "ACR"})

MCBus == [chip |-> "via1", disks |-> {},
          lines |-> {{}, {"ATN"}, {"ATN", "DATA"}, {"CLK"}},
          ports |-> {{}, {"ATN_ACK"}, {"DATA_OUT", "CLK_OUT"}},
          directions |-> {{}, PortBits1},
          registers |-> {"ORA", "ORB", "DDRB", "IER", "IFR"}]

MCRead  == [chip |-> "via2", disks |-> {"insert"}, lines |-> {{}},
            ports |-> {{"motor"}}, directions |-> {{}, PortBits2},
            registers |-> {"ORA", "ORB", "DDRB", "PCR"}]
MCZones == [chip |-> "via2", disks |-> {"insert", "eject"}, lines |-> {{}},
            ports |-> {{"motor"}, {"motor", "zone0"}},
            directions |-> {PortBits2}, registers |-> {"ORB", "DDRB"}]
MCSeek  == [MCZones EXCEPT !.disks = {"insert"},
                          !.ports = {{"motor"}, {"motor", "phase0"},
                                     {"motor", "phase1"}}]

MCPrograms == {MCTimer1, MCTimer2, MCBus, MCRead, MCZones, MCSeek}

(* A sync mark of two ones, then bytes of two bits. *)
MCTrack == [t \in 1 .. 2 |-> IF t = 1 THEN <<1, 1, 0, 1, 0, 0>> ELSE <<1, 1, 0, 0>>]
=============================================================================
