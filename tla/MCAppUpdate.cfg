SPECIFICATION UpdateSpec
CONSTANTS
    app = app
    old = old
    new = new
    note = note
    NoFile = NoFile
    User = User
    Mixed = Mixed
    NoRelease = NoRelease
    App = app
    Files <- MCFiles
    First <- MCFirst
    Releases <- MCReleases
    Manifest <- MCManifest
    Size <- MCSize
    MaxFaults = 2
    MaxPublished = 2
    MaxExits = 1
INVARIANTS
    InstallIsWhole
    UserFilesStay
    VerifiedStays
    PartialsAreOvercome
\* The published releases may be installed, or the application broken for good.
CHECK_DEADLOCK FALSE
