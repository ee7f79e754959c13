\* Two accounts, one domain and two requests, and names that pass from row to row.
CONSTANTS
    LastRow = 2
    Names = {anna, bea}
    anna = anna
    Hosts = {host}
    Label <- FirstLabel
    None = None
    Requests = {r1, r2}
SPECIFICATION FairSpec
INVARIANTS TypeOK EntriesHold EveryClaimIsKnown OneHolder
PROPERTY ClaimsTakeEffect
