----------------------------- MODULE MCServers ------------------------------
(* One loop that takes TCP connections and serves the emulator's pipe, and   *)
(* sets up services: instances of Setup and QemuServer for TLC.              *)
EXTENDS Setup, QemuServer

SetupStep == Next /\ UNCHANGED qvars
QemuStep  == Idle /\ QemuNext /\ UNCHANGED svars

ServersInit == Init /\ QemuInit
ServersNext == SetupStep \/ QemuStep

ServersSpec ==
  /\ ServersInit
  /\ [][ServersNext]_<<svars, qvars>>
  /\ SetupFairness /\ QemuFairness
=============================================================================
