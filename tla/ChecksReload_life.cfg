SPECIFICATION FairSpec
CONSTANTS
  Ifaces = {pcap}
  LateIfaces = {sub}
  PcapIface = pcap
  MaxConfig = 2
  AllocFails = TRUE
INVARIANT ChecksLive
PROPERTY RequestSeen
CHECK_DEADLOCK FALSE
