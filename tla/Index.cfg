\* A worker and a script on one index, whose reports may change between and within their runs.
SPECIFICATION Spec
CONSTANTS
    Process = {p1, p2}
    Reports = 2
    Heading = {"air", "water"}
    Text = {"empty", "short", "long"}
    ChunksOf <- MCChunksOf
    Extracts <- MCExtracts
    MaxExtracts = 1
    MaxRebuilds = 2
    MaxRestarts = 1
    None = None
SYMMETRY Symmetry
INVARIANTS
    TypeOK
    RebuilderAnswers
    IndexTellsTheReports
