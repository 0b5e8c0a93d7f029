----------------------------- MODULE MCDevices -----------------------------
(* The devices behind registers that keep a state between two accesses, the *)
(* serial ports and the sound generator, one of them at a time (focus,      *)
(* chosen at the start).                                                    *)
EXTENDS MCPorts, MCDsp

VARIABLE focus

DevicesInit ==
  /\ focus \in {"ports", "sound"}
  /\ Init /\ SoundInit
  /\ focus # "ports" => program = CHOOSE p \in Programs : TRUE
  /\ focus # "sound" => song = Notes

SoundDoes(A) == focus = "sound" /\ A /\ UNCHANGED <<focus, vars>>

DevicesNext ==
  \/ focus = "ports" /\ Next /\ UNCHANGED <<focus, soundVars>>
  \/ SoundDoes(SoundNext)

devicesVars == <<focus, vars, soundVars>>

\* The sample clock's fairness.
DevicesSpec ==
  DevicesInit /\ [][DevicesNext]_devicesVars /\ WF_devicesVars(SoundDoes(Sample))
=============================================================================
