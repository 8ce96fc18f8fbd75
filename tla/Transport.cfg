CONSTANTS
    Holders = {h1, h2}
SPECIFICATION TRSpec
INVARIANTS WarnedOncePerEpisode
PROPERTIES LastReportIsCurrent
