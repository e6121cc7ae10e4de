SPECIFICATION Spec
CONSTANTS
    Main <- M1
    Pre <- P1
    Web <- W1
    Post <- Q1
    Assets = {"a", "b", "boot"}
    Bundle = "main"
    Target <- Target1
    Required = {"tray", "bootstrap", "sunset"}
    Unique = {"sunset"}
    Lenient = {"keybinds"}
    Broken = {"search"}
INVARIANTS AcceptedIsPatched ReportIsTrue
PROPERTIES IntegrityRejects
