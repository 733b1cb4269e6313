\* Two publishers with two handoffs, resumptions between them; a kill and an error anywhere.
SPECIFICATION Spec
CONSTANTS
    Proc = {p1, p2}
    Handoff = {h1, h2}
    MaxCalls = 4
    MaxKills = 2
    MaxErrors = 1
    MaxLive = 2
    MayTear = TRUE
SYMMETRY Symmetry
INVARIANTS ArchiveIsOfDirectory MarkersAreBacked ArchiveStagingHasRoot ReturnMeansPublished
PROPERTIES PublicStays
