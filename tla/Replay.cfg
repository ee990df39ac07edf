\* Two players finish an opened game on a 2 x 2 board while it is watched.
CONSTANTS
    BoardSize = 2
    NumPlayers = 2
    NoSeat = NoSeat
    Outsider = Outsider
    Openings <- MCOpenings
    MaxPasses = 1
SPECIFICATION ReplaySpec
INVARIANTS
    FilmIsTheGame
PROPERTIES
    StepOnFilm
    PlaybackEnds
