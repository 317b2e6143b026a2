\* The relay with the right and with a wrong idea of its address.
SPECIFICATION SdFairSpec
CONSTANTS
    PERIOD = 2
    TTL = 2
INVARIANTS
    NothingRelayedTwice
PROPERTIES
    FindsAreAnswered
    KnownAgainAndAgain
    DeadBoardForgotten
