CONSTANTS
    d1 = d1
    d2 = d2
    d3 = d3
    hub = hub
    buyer = buyer
    other = other
    h1 = h1
    h2 = h2
    BadID = BadID
    Deals <- MCDeals2
    Addr <- MCAddr
    Hashes <- MCHashes
    Supplier <- MCSupplier2
    Buyer <- MCBuyer2
    SpecHash <- MCSpecHash2
    Self = hub
    ReqBuyer = buyer
    ReqHash = h1
    WaitID = d2
    WaitBuyer = buyer
    DealTimeout = 3
    FindTick = 1
    CloseTick = 2
SPECIFICATION FairLedgerSpec
PROPERTIES
    WaitClosedTerminates
