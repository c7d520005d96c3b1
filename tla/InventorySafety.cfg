SPECIFICATION FairInventorySpec
CONSTANTS
  Req = {r1, r2}
  Nobody = Nobody
  MaxFaults = 1
  Tid = {t1}
  Asset = {"www", "api"}
  Scanner = {"recon"}
  None = None
  Batches <- MCBatches
  MaxBatches = 3
INVARIANTS
  InventoryTypeOK
  NoOrphans
  StoredIsReported
  OneConnection
PROPERTIES
  ProvenanceKept
  Answered
\* All batches have been sent: the bound ends the system.
CHECK_DEADLOCK FALSE
