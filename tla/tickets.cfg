SPECIFICATION Spec
CONSTANTS
  t1 = t1
  t2 = t2
  Tickets = {t1, t2}
  NewTickets = {t2}
  NoTicket = NoTicket
  TicketTables <- SomeTables
  MaxReads = 2
  RunTables <- OneHistory
  MaxRunReads = 2
  MaxIngestWorkers = 1
  MaxIngestEvents = 1
  MaxGraphReads = 1
  GoldWorkers = {"w"}
  MaxSnapshots = 0
  MaxGoldEvents = 0
  UpstreamHops = {}
  GoldHops = {}
  MaxDagReads = 1
  MaxDagSnapshots = 0
  OpenPages = {"tickets", "dag"}
INVARIANTS
  HooksFollowStorage
  ActiveTicketListed
CHECK_DEADLOCK FALSE
