SPECIFICATION DatagramsSpec
CONSTANTS
  Sources = {s1, s2, s3}
  Suspects = {s1}
  Protocols = {"dns", "snmp", "ntp", "tftp", "sip", "openvpn", "ike", "wireguard", "l2tp", "generic"}
  Cap = 2
  Window = 3
  MaxClock = 4
INVARIANTS
  ActiveRowsAreTabled
  RowsAreLatestHeard
  StopLeavesAtMostOne
  NoAmplification
PROPERTIES
  LoopEnds
