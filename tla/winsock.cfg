SPECIFICATION Spec
CONSTANTS
  Chosen = {"ws2_32", "WSAIoctl", "mswsock", "WSARecvEx"}
  Original <- ThreeOriginals
  NoPtr = NoPtr
  Thread = {"t1", "t2"}
  MaxLoads = 2
INVARIANT TypeOK
INVARIANT HooksStayMapped
INVARIANT HandedOutPointersForward
PROPERTY ProxiesSettle
