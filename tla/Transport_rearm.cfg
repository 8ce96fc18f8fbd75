CONSTANTS
    Holders = {h1, h2}
SPECIFICATION TRSpec
PROPERTIES RecoveryRearms
