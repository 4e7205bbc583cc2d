---------------------------- MODULE ControlPlane ----------------------------
(***************************************************************************)
(* The parts around the gateway: the process, its settings and its         *)
(* realtime sessions.  They share nothing a step of two of them would      *)
(* read, and each may end at any step.                                     *)
(***************************************************************************)
EXTENDS Realtime, Server, Settings

controlVars == <<serverVars, settingsVars, realtimeVars>>

ControlInit == RealtimeInit /\ ServerInit /\ SettingsInit

ProcessMoves  == (ServerNext \/ ServerCrash) /\ UNCHANGED settingsVars /\ UNCHANGED realtimeVars
SettingsMove  == (SettingsNext \/ SettingsRestart) /\ UNCHANGED serverVars /\ UNCHANGED realtimeVars
SessionsMove  == (RealtimeNext \/ RealtimeRestart) /\ UNCHANGED serverVars /\ UNCHANGED settingsVars

ControlNext == ProcessMoves \/ SettingsMove \/ SessionsMove

ControlSpec ==
  ControlInit /\ [][ControlNext]_controlVars /\ ServerFairness /\ RealtimeFairness

\* The shape of the state of the three modules.
TypeOK == SettingsTypeOK /\ ServerTypeOK /\ RealtimeTypeOK
=============================================================================
