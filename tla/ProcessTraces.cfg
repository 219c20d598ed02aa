SPECIFICATION MCSpec
CONSTANTS
  h1 = h1
  h2 = h2
  h3 = h3
  e1 = e1
  e2 = e2
  own1 = own1
  both = both
  own2 = own2
  None = None
  Installers = {t1, t2}
  MaxTickets = 3
  Clients = {t1, t2}
  MaxStubs = 3
  Loaders = {t1, t2, t3}
  MaxEntrants = 2
  Targets = {t1, t2}
  Polled = {t1}
  MaxSamples = 2
  Hooks = {h1, h2, h3}
  Entries = {e1, e2}
  Sites = {own1, both, own2}
  EntryOf <- TwoEntries
  Returns <- SharedReturn
INVARIANTS PayloadAgrees InstalledIntercepts VeneerMapped
INVARIANTS CallbacksDrained SampleIsWhole SignalReturned
PROPERTY HostsKeepContract
CHECK_DEADLOCK FALSE
