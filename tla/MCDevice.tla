------------------------------ MODULE MCDevice ------------------------------
(***************************************************************************)
(* Two views of the MMD interface, explored side by side: one device with  *)
(* its interrupt thread (DeviceLifecycle), or all devices of a process     *)
(* with their handles (DeviceMap).  Each starts when the process of the    *)
(* other has ended, so that no state of one is multiplied by the other's.  *)
(***************************************************************************)
EXTENDS DeviceLifecycle, DeviceMap

MCBackends == {"hps", "pac", "ofs"}
MCPlatforms == {"hps", "pac", "ofs", "stream", "de10"}
MCClients == {1, 2}
MCBoards == {1, 2}
MCShapes == {0, 1, 3}

OneDevice == Init /\ NothingOpen /\ manager = "down" /\ platform = "hps"
AllDevices == MapInit /\ Fresh /\ host = "exit" /\ backend = "hps" /\ started = 0

MCInit == OneDevice \/ AllDevices
MCNext == (Next /\ UNCHANGED mmdVars) \/ (MapNext /\ UNCHANGED vars)
MCSpec == MCInit /\ [][MCNext]_<<vars, mmdVars>> /\ Fairness
=============================================================================
