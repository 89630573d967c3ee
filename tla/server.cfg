\* Two tool calls and a scrape, with and without a metrics server, under
\* fairness of main and of time alone.
SPECIFICATION FairSpec
CONSTANTS
    Calls = {c1, c2}
    Scrapes = {s1}
INVARIANTS
    TypeOK
    ExitTellsWhy
PROPERTY EndsWhenItMust
\* The process ends.
CHECK_DEADLOCK FALSE
