\* Two cells of one result, whatever they are, one after the other.
SPECIFICATION Spec
CONSTANTS
    Width <- MCWidth
    Day = 2
    Minute = 2
    Cells <- MCCells
    Dests <- MCDests
    Params <- MCParams
    Reads = 2
    Digits = 1
    Sixty = 4
    Hours = 3
    MaxOffset = 2
    Bits = 13
    Widths <- MCWidths
    Single <- MCSingle
    Named <- NameOf
    Returned <- MCReturned
    Written <- MCWritten
INVARIANTS ReadsWhatIsThere ScanKeepsTheValue BoundReadsBack
    ReportsReadBack SameIffShownAlike ReadsAsWritten
