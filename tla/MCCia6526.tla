------------------------------ MODULE MCCia6526 ------------------------------
(* Programs for one timer and its input, for two that are cascaded, for    *)
(* the events and the mask, and two for the clock: one reads and sets it,  *)
(* one sets the alarm.                                                     *)
EXTENDS Cia6526

MCControl(starts, oneshots, modes, loads, highs) ==
  [start : starts, oneshot : oneshots, inmode : modes, load : loads, high : highs]
MCOff == {FALSE}

MCNothing ==
  [pins |-> {Pins}, cra |-> {}, crb |-> {}, times |-> {}, registers |-> {}]

MCTimer == [MCNothing EXCEPT
  !.pins = {Pins, {"FLAG"}}, !.registers = {"TA_LO", "TA_HI"},
  !.cra = MCControl(BOOLEAN, BOOLEAN, {"phi2", "cnt"}, BOOLEAN, MCOff)]

MCCascade == [MCNothing EXCEPT
  !.registers = {"TA_LO", "TA_HI", "TB_LO", "TB_HI"},
  !.cra = MCControl({TRUE}, MCOff, {"phi2"}, MCOff, MCOff),
  !.crb = MCControl({TRUE}, MCOff, {"ta"}, BOOLEAN, MCOff)]

MCInterrupts == [MCNothing EXCEPT
  !.pins = {Pins, {"CNT"}}, !.registers = {"ICR", "MASK"},
  !.cra = MCControl(BOOLEAN, MCOff, {"phi2"}, MCOff, MCOff),
  !.crb = MCControl({TRUE}, BOOLEAN, {"ta_cnt"}, MCOff, MCOff)]

MCInstants == {[t |-> 1, s |-> 1, m |-> 1, h |-> 3, pm |-> TRUE]}

MCClock == [MCNothing EXCEPT
  !.registers = {"TOD_HR", "TOD_MIN", "TOD_SEC", "TOD_10THS"}, !.times = MCInstants,
  !.cra = MCControl(MCOff, MCOff, {"phi2"}, MCOff, BOOLEAN)]

MCAlarm == [MCNothing EXCEPT
  !.registers = {"ICR"}, !.times = MCInstants,
  !.crb = MCControl(MCOff, MCOff, {"phi2"}, MCOff, BOOLEAN)]

MCPrograms == {MCTimer, MCCascade, MCInterrupts, MCClock, MCAlarm}
MCDivider == [high \in BOOLEAN |-> IF high THEN 1 ELSE 2]
=============================================================================
