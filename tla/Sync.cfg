CONSTANTS
  t1 = t1 r = r act = act closed = closed None = None Unseen = Unseen
  Thread = {t1}
  Other = {r}
  Status = {act, closed}
  BaselineOf <- Migrated
  Legacy <- TwoBots
  Requests <- CloseIt
  Writeback = TRUE
  MaxEvents = 2
  MaxCommands = 1
SPECIFICATION Spec
INVARIANTS PageShowsSlack OwnerOutranksBots
