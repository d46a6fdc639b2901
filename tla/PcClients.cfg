CONSTANTS
  Agent = {a1, a2}
  App = {desk}
  Default = {a1, a2}
  WinAgent = WinAgent
  WinDesktop = WinDesktop
  AgentSocket = {s1, s2, s3}
  AppSocket = {t1, t2, t3}
  None = None
  MaxOutages = 2
SPECIFICATION FairSpec
INVARIANTS TypeOK OneConnectionOrRetry ShownIsConnected
PROPERTIES RegistryIsARoster AgentsComeBack
