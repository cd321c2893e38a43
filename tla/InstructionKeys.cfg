\* Two processes, two requests of any kind over two generations and one
\* instruction; restarts and reloads at any time.
SPECIFICATION Spec
CONSTANTS
    Nodes = {n1, n2}
    Requests = {r1, r2}
    Instructions = {i1}
    MaxGenerations = 2
    None = None
INVARIANTS TypeOK StaysVerifiable RingsAgree SignsWithRecent
SYMMETRY Symmetry
PROPERTY CounterSignedOnce
CHECK_DEADLOCK FALSE
