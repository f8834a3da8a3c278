SPECIFICATION Spec
CONSTANTS
  t1 = t1
  t2 = t2
  Tickets = {t1}
  NewTickets = {}
  NoTicket = NoTicket
  TicketTables <- OneTable
  MaxReads = 1
  RunTables <- TwoHistories
  MaxRunReads = 2
  MaxIngestWorkers = 1
  MaxIngestEvents = 1
  MaxGraphReads = 1
  GoldWorkers = {"w"}
  MaxSnapshots = 1
  MaxGoldEvents = 1
  UpstreamHops = {"bronze"}
  GoldHops = {"gold-pairing"}
  MaxDagReads = 1
  MaxDagSnapshots = 1
  OpenPages = {"tickets", "ingest", "preprocessing", "enrichment", "dag"}
INVARIANTS
  
  BusyPagesWait
  DrawerShowsItsHop
PROPERTY
  WorkerFieldHolds
CHECK_DEADLOCK FALSE
