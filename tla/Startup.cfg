CONSTANTS
  running = running
  next = next
  branch = branch
  shell = shell
  a = a
  b = b
  e = e
  edited = edited
  Proc <- MCProc
  Backend <- MCBackend
  Migrator <- MCMigrator
  Checksum <- MCChecksum
  Checkout <- MCCheckout
  Clash <- MCClash
  Conflict <- MCConflict
  MaxDeaths = 2
SPECIFICATION FairSpec
INVARIANTS TypeOK ServesOnItsSchema
PROPERTIES MigrationsAreSerial BackendsServe
