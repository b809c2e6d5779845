SPECIFICATION Spec
CONSTANTS
  Ifaces = {pcap}
  LateIfaces = {sub}
  PcapIface = pcap
  MaxConfig = 2
  AllocFails = FALSE
INVARIANT LoaderLive
