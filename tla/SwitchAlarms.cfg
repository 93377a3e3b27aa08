SPECIFICATION SwitchSpec
CONSTANTS
  Zone = {z1, z2}
  DEDUP_GAP = 2
  SWITCH_TIMEOUT = 3
  PerSecond = 2
  LoopTime = 3
  MaxTime = 14
INVARIANTS
  CacheIsOpenAlarms
  RecoveredInTime
PROPERTIES
  AlarmsApart
  RecoveryNotEarly
