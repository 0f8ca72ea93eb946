------------------------------ MODULE MCSession ------------------------------
EXTENDS Session

CONSTANTS dead, main, peer

MCNone == {}
MCOld == {dead}

Command(explicit, events, trace, faulty) ==
  [explicit |-> explicit, events |-> events, trace |-> trace, faulty |-> faulty]

(* One Session: an explicit log beside a stream with fragments, and a      *)
(* default log with traces.                                                *)
MCAlone == {main}
MCAloneModes ==
  [s \in MCAlone |-> {Command(TRUE, "tokens", FALSE, {"log"}),
                      Command(FALSE, "normal", TRUE, {"stream", "log"})}]
MCAloneTurns == [s \in MCAlone |-> 2]

(* Two Sessions on one data directory, and the file of an earlier one. *)
MCShared == {dead, main, peer}
MCSharedModes ==
  [s \in MCShared |->
     CASE s = main -> {Command(FALSE, "off", FALSE, {"log"}), Command(TRUE, "off", FALSE, {"log"})}
       [] s = peer -> {Command(FALSE, "off", FALSE, {"log"})}
       [] OTHER -> {Command(FALSE, "off", FALSE, {})}]
MCSharedTurns == [s \in MCShared |-> IF s = main THEN 1 ELSE 0]
=============================================================================
