SPECIFICATION Spec
CONSTANTS
  apex = apex
  sub = sub
  a1 = a1
  a2 = a2
  Host <- MCHost
  Under <- MCUnder
  Edition <- MCEdition
  Term <- MCTerm
  Phase = {"cred", "web_recon"}
  Admin = {a1, a2}
  Check = {c1}
  PageCap = 2
  DefaultWindow = 1
  MaxSyncs = 2
  MaxTime = 2
SYMMETRY Slots
INVARIANTS
  AllowIsJustified
  StoreIsOnePolicy
  SyncStoresWholeListing
\* The clock, the editions and the syncs are bounded.
CHECK_DEADLOCK FALSE
