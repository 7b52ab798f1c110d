SPECIFICATION Spec

CONSTANTS
    Files = {main, a, b}
    Main = main
    Std = {a}
    Contents <- AllForms
    Edited = {}
    MaxEdits = 0

PROPERTIES
    BoundAsChecked
